---- MODULE Spec2Model ----
(***************************************************************************)
(* A model of the in-browser perf profiler: the trace parser, the call     *)
(* tree builder, the range filter, the bucket grid builder, the grid       *)
(* selection handlers, the file-load / worker protocol and the flame graph *)
(* prune / collapse recompute.                                             *)
(*                                                                         *)
(* Time is counted in ticks: one 100 ms grid interval is Res ticks, one    *)
(* second is IntervalsPerSecond * Res ticks.                               *)
(***************************************************************************)
EXTENDS Integers, Sequences, FiniteSets, TLC

VARIABLES
    \* ---- call tree pipeline (worker: buildFlamegraphData, App: filterFlamegraph)
    samples,      \* the sample sequence handed to the builders
    phase,        \* "input" | "built" | "filtered" | "refiltered" | "composed"
    tree,         \* buildFlamegraphData(samples)
    win,          \* the window [min, max] of the last filterFlamegraph call
    flt,          \* filterFlamegraph(tree, win.min, win.max)
    flt2,         \* filterFlamegraph(flt, win.min, win.max)
    win2,         \* the window of a second filterFlamegraph call, on flt
    fltAgain,     \* filterFlamegraph(flt, win2.min, win2.max)
    \* ---- bucket grid (worker: buildHeatmapData)
    heatmap,      \* buildHeatmapData(samples)
    \* ---- grid selection (Heatmap component) and the App's timeRange state
    selectedCells,    \* Set<string> of cell ids
    isSelecting,
    selectionAnchor,  \* null or {second, interval}
    timeRange,        \* App state: null or {min, max}
    cellsToHighlight, \* the cell ids painted by the highlight effect
    finalized,        \* history: the selection read by the last finalization
    gapDrag,          \* history: the gesture held a shift-drag over non-adjacent columns
    plainDrag,        \* history: the pointer-down cell and the hovered cells of a gesture with no modifier
    \* ---- trace parser (worker: parsePerfScript)
    lines,        \* text.split('\n'): a sequence of lines, each a sequence of characters
    parsed,       \* the outcome of parsePerfScript(lines)
    \* ---- file load / worker protocol (App)
    originalData,     \* App state: null or {flamegraph, heatmap}
    filteredData,     \* App state: null or {flamegraph, heatmap}
    error,            \* App state: null or {message}
    isLoading,        \* App state
    view,             \* App state: "flamegraph" | "heatmap"
    reading,          \* the FileReaders that have not fired onload yet
    inbox,            \* messages posted to the worker, not yet handled by it
    outbox,           \* messages posted by the worker, not yet handled by the App
    effectPending,    \* a render committed whose filter effect has not run yet
    loaded,           \* history: the files passed to handleFileChange, in order
    rangeOn,          \* history: the grid on which timeRange was selected
    \* ---- flame graph interaction (FlameGraph component)
    flameData,        \* the data prop
    collapsedNodes,   \* Map<string, boolean> by frame name
    prunedNodes,      \* Set<string> of node paths
    zoomTarget,       \* null or the path of the zoomed node
    generation,
    contextMenu,      \* null or the path of the node the menu was opened on
    shown             \* the hierarchy computed by the last render effect

treeVars == <<tree, win, flt, flt2, win2, fltAgain>>
gridVars == <<heatmap>>
selVars == <<selectedCells, isSelecting, selectionAnchor, timeRange, cellsToHighlight,
             finalized, gapDrag, plainDrag>>
parseVars == <<lines, parsed>>
appVars == <<originalData, filteredData, error, isLoading, view, reading, inbox, outbox,
             effectPending, loaded, rangeOn>>
viewVars == <<flameData, collapsedNodes, prunedNodes, zoomTarget, generation, contextMenu, shown>>
extVars == <<parseVars, appVars, viewVars>>
vars == <<samples, phase, tree, win, flt, flt2, win2, fltAgain, heatmap,
          selectedCells, isSelecting, selectionAnchor, timeRange, cellsToHighlight,
          finalized, gapDrag, plainDrag, parseVars, appVars, viewVars>>

-----------------------------------------------------------------------------
(* Bounds and program constants *)

MaxSamples == 2            \* samples per trace (call tree pipeline)
MaxGridSamples == 3        \* samples per trace (bucket grid)
Res == 2                   \* ticks per 100 ms interval
IntervalsPerSecond == 10   \* Math.floor((relativeTime - second) * 10)
Infinity == 1000           \* stands for the float Infinity: above every time
Undefined == -1            \* stands for a missing optional number field

TicksPerSecond == IntervalsPerSecond * Res
Null == [null |-> TRUE]    \* the value null
NoFinalized == {"none"}    \* history value: no finalization since the last pointer-down
NoPlainDrag == [plain |-> FALSE]    \* history value: no gesture yet, or one that held a modifier

-----------------------------------------------------------------------------
(* Sequence helpers *)

RECURSIVE SumSeq(_)
SumSeq(s) == IF s = <<>> THEN 0 ELSE Head(s) + SumSeq(Tail(s))

Max2(a, b) == IF a >= b THEN a ELSE b
Min2(a, b) == IF a <= b THEN a ELSE b

RECURSIVE MaxSeq(_)
\* Math.max(0, ...s)
MaxSeq(s) == IF s = <<>> THEN 0 ELSE Max2(Head(s), MaxSeq(Tail(s)))

\* JavaScript truthiness of an optional number: undefined and 0 are falsy.
Truthy(x) == x # Undefined /\ x # 0

-----------------------------------------------------------------------------
(* buildFlamegraphData *)

Unknown == "[unknown]"

NewNode(name, process, time) ==
    [name |-> name, value |-> 0, children |-> <<>>, process |-> process,
     startTime |-> time, endTime |-> time, samples |-> <<>>,
     totalCpuCost |-> Undefined, maxCpuCost |-> Undefined, path |-> ""]

RECURSIVE UnknownRun(_, _)
\* the number of consecutive "[unknown]" frames of stack from index i on
UnknownRun(stack, i) ==
    IF i <= Len(stack) /\ stack[i] = Unknown THEN 1 + UnknownRun(stack, i + 1) ELSE 0

\* a variant that leaves the length of the run out of the name
FrameNameNoCount(stack, i, process) ==
    IF stack[i] = Unknown THEN "[unknown] (" \o process \o ")" ELSE stack[i]

\* a variant that labels every frame with the process
FrameNameLabelled(stack, i, process) == stack[i] \o " (" \o process \o ")"

FrameName(stack, i, process) ==
    IF stack[i] = Unknown
    THEN IF UnknownRun(stack, i) > 1
         THEN ToString(UnknownRun(stack, i)) \o " x [unknown] (" \o process \o ")"
         ELSE "[unknown] (" \o process \o ")"
    ELSE stack[i]

\* a variant that never finds an existing child
FindChildNever(children, frameName) == 0

\* currentNode.children.find(c => c.name === frameName): the first index, or 0
FindChild(children, frameName) ==
    IF \E k \in 1..Len(children) : children[k].name = frameName
    THEN CHOOSE k \in 1..Len(children) :
            /\ children[k].name = frameName
            /\ \A m \in 1..(k - 1) : children[m].name # frameName
    ELSE 0

TouchTimes(child, time) ==
    LET st == IF Truthy(child.startTime) /\ child.startTime > time THEN time ELSE child.startTime
        et == IF Truthy(child.endTime) /\ child.endTime < time THEN time ELSE child.endTime
    IN [child EXCEPT !.startTime = st, !.endTime = et]

AddLeafSample(child, sample) ==
    [child EXCEPT !.value = @ + 1,
                  !.samples = Append(@, [time |-> sample.time, cpuCost |-> sample.cpuCost])]

RECURSIVE InsertAt(_, _, _)
\* one iteration of the frame loop at index i (1-based) below currentNode,
\* followed by the remaining iterations
InsertAt(currentNode, sample, i) ==
    LET stack == sample.stack
        frameName == FrameName(stack, i, sample.process)
        j == IF stack[i] = Unknown THEN i + UnknownRun(stack, i) - 1 ELSE i
        k == FindChild(currentNode.children, frameName)
        found == IF k = 0 THEN NewNode(frameName, sample.process, sample.time)
                 ELSE TouchTimes(currentNode.children[k], sample.time)
        counted == IF j = Len(stack) THEN AddLeafSample(found, sample) ELSE found
        childNode == IF j < Len(stack) THEN InsertAt(counted, sample, j + 1) ELSE counted
    IN [currentNode EXCEPT !.children =
            IF k = 0 THEN Append(@, childNode) ELSE [@ EXCEPT ![k] = childNode]]

InsertSample(root, sample) ==
    IF sample.stack = <<>> THEN root ELSE InsertAt(root, sample, 1)

RECURSIVE InsertAll(_, _)
InsertAll(root, ss) ==
    IF ss = <<>> THEN root ELSE InsertAll(InsertSample(root, Head(ss)), Tail(ss))

RECURSIVE MinStart(_)
\* minStartTime over the children, skipping falsy start times
MinStart(children) ==
    IF children = <<>> THEN Infinity
    ELSE LET c == Head(children)
             rest == MinStart(Tail(children))
         IN IF Truthy(c.startTime) /\ c.startTime < rest THEN c.startTime ELSE rest

RECURSIVE MaxEnd(_)
MaxEnd(children) ==
    IF children = <<>> THEN -Infinity
    ELSE LET c == Head(children)
             rest == MaxEnd(Tail(children))
         IN IF Truthy(c.endTime) /\ c.endTime > rest THEN c.endTime ELSE rest

RECURSIVE ResetEveryValue(_)
\* a plausible slip: the value reset without the children.length > 0 test
ResetEveryValue(node) ==
    LET kids == [i \in 1..Len(node.children) |-> ResetEveryValue(node.children[i])]
    IN IF Len(kids) > 0
       THEN [node EXCEPT !.children = kids, !.value = 0,
                         !.startTime = MinStart(kids), !.endTime = MaxEnd(kids)]
       ELSE [node EXCEPT !.value = 0]

RECURSIVE resetParentValuesAndPropagateTimes(_)
\* post-order: the children are processed before their parent
resetParentValuesAndPropagateTimes(node) ==
    LET kids == [i \in 1..Len(node.children) |->
                    resetParentValuesAndPropagateTimes(node.children[i])]
    IN IF Len(kids) > 0
       THEN [node EXCEPT !.children = kids, !.value = 0,
                         !.startTime = MinStart(kids), !.endTime = MaxEnd(kids)]
       ELSE node

NewRoot(ss) ==
    [name |-> "root", value |-> 0, children |-> <<>>, process |-> "",
     startTime |-> IF Len(ss) > 0 THEN ss[1].time ELSE Undefined,
     endTime |-> IF Len(ss) > 0 THEN ss[Len(ss)].time ELSE Undefined,
     samples |-> <<>>, totalCpuCost |-> Undefined, maxCpuCost |-> Undefined,
     path |-> ""]

buildFlamegraphData(ss) ==
    [resetParentValuesAndPropagateTimes(InsertAll(NewRoot(ss), ss)) EXCEPT !.value = 0]

-----------------------------------------------------------------------------
(* filterFlamegraph *)

\* a plausible slip: the upper end of the window taken as exclusive
InWindowHalfOpen(s, minTime, maxTime) == s.time >= minTime /\ s.time < maxTime

InWindow(s, minTime, maxTime) == s.time >= minTime /\ s.time <= maxTime

SamplesInNode(node, minTime, maxTime) ==
    SelectSeq(node.samples, LAMBDA s : InWindow(s, minTime, maxTime))

NotNull(x) == x # Null

\* a plausible slip: the children's values added into the stored value
FilteredValueAggregated(node, samplesInNode, filteredChildren) ==
    Len(samplesInNode) + SumSeq([i \in 1..Len(filteredChildren) |-> filteredChildren[i].value])

\* const value = samplesInNode.length
FilteredValue(node, samplesInNode, filteredChildren) == Len(samplesInNode)

OrZero(x) == IF x = Undefined THEN 0 ELSE x

\* a plausible slip: the total compounds on the node's stored total
TotalCpuCostCompounded(node, samplesInNode, filteredChildren) ==
    OrZero(node.totalCpuCost)
        + SumSeq([i \in 1..Len(filteredChildren) |-> OrZero(filteredChildren[i].totalCpuCost)])
        + SumSeq([i \in 1..Len(samplesInNode) |-> samplesInNode[i].cpuCost])

TotalCpuCost(node, samplesInNode, filteredChildren) ==
    SumSeq([i \in 1..Len(filteredChildren) |-> OrZero(filteredChildren[i].totalCpuCost)])
        + SumSeq([i \in 1..Len(samplesInNode) |-> samplesInNode[i].cpuCost])

MaxCpuCost(node, samplesInNode, filteredChildren) ==
    Max2(MaxSeq([i \in 1..Len(filteredChildren) |-> OrZero(filteredChildren[i].maxCpuCost)]),
         MaxSeq([i \in 1..Len(samplesInNode) |-> samplesInNode[i].cpuCost]))

\* a filter output that keeps the node's whole sample list
FilteredSamplesKept(node, samplesInNode) == node.samples

\* samples: samplesInNode
FilteredSamples(node, samplesInNode) == samplesInNode

RECURSIVE FilterNode(_, _, _)
\* resultMap.get(node) after the node's process phase
FilterNode(node, minTime, maxTime) ==
    LET results == [i \in 1..Len(node.children) |->
                        FilterNode(node.children[i], minTime, maxTime)]
        filteredChildren == SelectSeq(results, NotNull)
        samplesInNode == SamplesInNode(node, minTime, maxTime)
        value == FilteredValue(node, samplesInNode, filteredChildren)
    IN IF value = 0 /\ Len(filteredChildren) = 0
       THEN Null
       ELSE [node EXCEPT !.children = filteredChildren,
                         !.value = value,
                         !.samples = FilteredSamples(node, samplesInNode),
                         !.totalCpuCost = TotalCpuCost(node, samplesInNode, filteredChildren),
                         !.maxCpuCost = MaxCpuCost(node, samplesInNode, filteredChildren)]

filterFlamegraph(rootNode, minTime, maxTime) == FilterNode(rootNode, minTime, maxTime)

-----------------------------------------------------------------------------
(* The call tree pipeline as a state machine *)

TreeStacks == { <<>>, <<"a">>, <<"a", "b">>, <<"a", "c">> }
TreeTimes == { 0, 1, Res + 1 }
TreeCosts == { 1, 2 }
TreeSamples == [stack : TreeStacks, time : TreeTimes, process : {"p"}, cpuCost : TreeCosts]
TreeWindows == { w \in [min : TreeTimes, max : TreeTimes] : TRUE }

NoWin == [min |-> 0, max |-> 0]

TreeIdle ==
    /\ tree = Null
    /\ win = NoWin
    /\ flt = Null
    /\ flt2 = Null
    /\ win2 = NoWin
    /\ fltAgain = Null

GridIdle == heatmap = Null

ParseIdle ==
    /\ lines = <<>>
    /\ parsed = Null

AppIdle ==
    /\ originalData = Null
    /\ filteredData = Null
    /\ error = Null
    /\ isLoading = FALSE
    /\ view = "flamegraph"
    /\ reading = {}
    /\ inbox = <<>>
    /\ outbox = <<>>
    /\ effectPending = FALSE
    /\ loaded = <<>>
    /\ rangeOn = Null

ViewIdle ==
    /\ flameData = Null
    /\ collapsedNodes = <<>>
    /\ prunedNodes = {}
    /\ zoomTarget = Null
    /\ generation = 0
    /\ contextMenu = Null
    /\ shown = Null

ExtIdle == ParseIdle /\ AppIdle /\ ViewIdle

SelIdle ==
    /\ selectedCells = {}
    /\ isSelecting = FALSE
    /\ selectionAnchor = Null
    /\ timeRange = Null
    /\ cellsToHighlight = {}
    /\ finalized = NoFinalized
    /\ gapDrag = FALSE
    /\ plainDrag = NoPlainDrag

TreeInit ==
    /\ samples = <<>>
    /\ phase = "input"
    /\ TreeIdle
    /\ GridIdle
    /\ SelIdle
    /\ ExtIdle

AddSample ==
    /\ phase = "input"
    /\ Len(samples) < MaxSamples
    /\ \E s \in TreeSamples : samples' = Append(samples, s)
    /\ UNCHANGED <<phase, tree, win, flt, flt2, win2, fltAgain>>
    /\ UNCHANGED <<gridVars, selVars, extVars>>

\* the worker builds the tree of a successfully parsed trace (at least one sample)
Build ==
    /\ phase = "input"
    /\ Len(samples) > 0
    /\ tree' = buildFlamegraphData(samples)
    /\ phase' = "built"
    /\ UNCHANGED <<samples, win, flt, flt2, win2, fltAgain>>
    /\ UNCHANGED <<gridVars, selVars, extVars>>

Filter ==
    /\ phase = "built"
    /\ \E w \in TreeWindows :
          /\ win' = w
          /\ flt' = filterFlamegraph(tree, w.min, w.max)
    /\ phase' = "filtered"
    /\ UNCHANGED <<samples, tree, flt2, win2, fltAgain>>
    /\ UNCHANGED <<gridVars, selVars, extVars>>

Refilter ==
    /\ phase = "filtered"
    /\ flt # Null
    /\ flt2' = filterFlamegraph(flt, win.min, win.max)
    /\ phase' = "refiltered"
    /\ UNCHANGED <<samples, tree, win, flt, win2, fltAgain>>
    /\ UNCHANGED <<gridVars, selVars, extVars>>

TreeNext == AddSample \/ Build \/ Filter \/ Refilter

Spec == TreeInit /\ [][TreeNext]_vars

\* filterFlamegraph applied to its own output with a second window
FilterAgain ==
    /\ phase = "filtered"
    /\ flt # Null
    /\ \E w \in TreeWindows :
          /\ win2' = w
          /\ fltAgain' = filterFlamegraph(flt, w.min, w.max)
    /\ phase' = "composed"
    /\ UNCHANGED <<samples, tree, win, flt, flt2>>
    /\ UNCHANGED <<gridVars, selVars, extVars>>

ComposeNext == AddSample \/ Build \/ Filter \/ FilterAgain

SpecCompose == TreeInit /\ [][ComposeNext]_vars


\* the builder over stacks with unresolved frames and samples of two processes
MergeStacks == { <<"a">>, <<"a", "b">>, <<"a", "[unknown]">>,
                 <<"[unknown]", "[unknown]", "b">>, <<"[unknown]", "[unknown]">> }
MergeSamples == [stack : MergeStacks, time : {1, 2}, process : {"p", "q"}, cpuCost : {1}]

AddMergeSample ==
    /\ phase = "input"
    /\ Len(samples) < MaxSamples
    /\ \E s \in MergeSamples : samples' = Append(samples, s)
    /\ UNCHANGED <<phase, tree, win, flt, flt2, win2, fltAgain>>
    /\ UNCHANGED <<gridVars, selVars, extVars>>

MergeNext == AddMergeSample \/ Build

SpecMerge == TreeInit /\ [][MergeNext]_vars

-----------------------------------------------------------------------------
(* buildHeatmapData *)

\* Math.ceil and Math.floor of a time of t ticks, in seconds
CeilSeconds(t) == -((-t) \div TicksPerSecond)
FloorSeconds(t) == t \div TicksPerSecond

\* Math.floor((relativeTime - second) * 10)
IntervalOf(relativeTime, second) ==
    ((relativeTime - second * TicksPerSecond) * IntervalsPerSecond) \div TicksPerSecond

\* a plausible slip: the bucket test written second <= numSeconds
CountedLoose(second, interval, numSeconds) ==
    second <= numSeconds /\ interval < IntervalsPerSecond

\* if (second < numSeconds && interval < 10)
Counted(second, interval, numSeconds) ==
    second < numSeconds /\ interval < IntervalsPerSecond

EmptyBuckets(numSeconds) ==
    [c \in (0..(numSeconds - 1)) \X (0..(IntervalsPerSecond - 1)) |-> 0]

\* a variant that keeps the count of the bucket incremented last
NextMaxCountLast(maxCount, count) == count

\* if (buckets[second][interval] > maxCount) maxCount = buckets[second][interval]
NextMaxCount(maxCount, count) == IF count > maxCount THEN count ELSE maxCount

RECURSIVE FillBuckets(_, _, _, _)
\* the loop over the samples: the buckets, maxCount, and whether
\* buckets[second][interval]++ threw (buckets[second] undefined)
FillBuckets(acc, ss, firstTime, numSeconds) ==
    IF ss = <<>> \/ acc.threw THEN acc
    ELSE LET relativeTime == Head(ss).time - firstTime
             second == FloorSeconds(relativeTime)
             interval == IntervalOf(relativeTime, second)
             cell == <<second, interval>>
         IN IF ~Counted(second, interval, numSeconds)
            THEN FillBuckets(acc, Tail(ss), firstTime, numSeconds)
            ELSE IF cell \notin DOMAIN acc.buckets
                 THEN [acc EXCEPT !.threw = TRUE]
                 ELSE FillBuckets(
                        [acc EXCEPT !.buckets[cell] = @ + 1,
                                    !.maxCount = NextMaxCount(@, acc.buckets[cell] + 1)],
                        Tail(ss), firstTime, numSeconds)

\* a variant that emits every bucket of the grid
EmittedAlways(count) == TRUE

\* if (buckets[i][j] > 0)
Emitted(count) == count > 0

RECURSIVE EmitBuckets(_, _, _)
\* the loops over i < numSeconds, j < 10, from cell number n on
EmitBuckets(buckets, numSeconds, n) ==
    IF n >= numSeconds * IntervalsPerSecond THEN <<>>
    ELSE LET i == n \div IntervalsPerSecond
             j == n % IntervalsPerSecond
         IN (IF Emitted(buckets[<<i, j>>])
             THEN <<[second |-> i, interval |-> j, count |-> buckets[<<i, j>>]]>>
             ELSE <<>>)
            \o EmitBuckets(buckets, numSeconds, n + 1)

buildHeatmapData(ss) ==
    IF Len(ss) = 0
    THEN [threw |-> FALSE, data |-> <<>>, maxTime |-> 0, maxCount |-> 0, firstTime |-> Undefined]
    ELSE LET firstTime == ss[1].time
             maxTime == ss[Len(ss)].time - firstTime
             numSeconds == CeilSeconds(maxTime)
             filled == FillBuckets([buckets |-> EmptyBuckets(numSeconds), maxCount |-> 0,
                                    threw |-> FALSE], ss, firstTime, numSeconds)
         IN IF filled.threw
            THEN [threw |-> TRUE]
            ELSE [threw |-> FALSE,
                  data |-> EmitBuckets(filled.buckets, numSeconds, 0),
                  maxTime |-> numSeconds,
                  maxCount |-> filled.maxCount,
                  firstTime |-> firstTime]

-----------------------------------------------------------------------------
(* The bucket grid builder as a state machine *)

GridTimes == { 0, 1, Res, TicksPerSecond - 1, TicksPerSecond,
               TicksPerSecond + Res, 2 * TicksPerSecond }
GridSamples == [stack : {<<"a">>}, time : GridTimes, process : {"p"}, cpuCost : {1}]

GridInit ==
    /\ samples = <<>>
    /\ phase = "input"
    /\ TreeIdle
    /\ GridIdle
    /\ SelIdle
    /\ ExtIdle

AddGridSample ==
    /\ phase = "input"
    /\ Len(samples) < MaxGridSamples
    /\ \E s \in GridSamples : samples' = Append(samples, s)
    /\ UNCHANGED <<phase, treeVars, heatmap, selVars, extVars>>

\* the worker builds the grid of a successfully parsed trace (at least one sample)
BuildGrid ==
    /\ phase = "input"
    /\ Len(samples) > 0
    /\ heatmap' = buildHeatmapData(samples)
    /\ phase' = "grid"
    /\ UNCHANGED <<samples, treeVars, selVars, extVars>>

GridNext == AddGridSample \/ BuildGrid

SpecGrid == GridInit /\ [][GridNext]_vars

-----------------------------------------------------------------------------
(* Heatmap: cell ids, cell times, selection handlers, highlight effect *)

\* `${d.second}-${d.interval}`
getCellId(d) == ToString(d.second) \o "-" \o ToString(d.interval)

CellCoords == [second : 0..3, interval : 0..(IntervalsPerSecond - 1)]

\* id.split('-') and parseInt of the two parts
ParseCellId(id) == CHOOSE c \in CellCoords : getCellId(c) = id

(* The cell times are doubles.  second + interval * 0.1 and
   cellStartTime + 0.1 are represented by the number n of tenths they stand
   for and the sign e of their rounding error relative to the start of the
   cell that begins at n tenths: in IEEE-754 double arithmetic
   (s + i * 0.1) + 0.1 is above (DriftUp), below (DriftDown) or equal to the
   start of the next cell.  The order of two such doubles is the
   lexicographic order of <<n, e>>. *)
DriftUp == { <<1, 1>>, <<1, 3>>, <<1, 7>>, <<1, 8>>, <<2, 2>>, <<2, 7>>, <<3, 2>>, <<3, 7>> }
DriftDown == { <<0, 5>> }

FloatLess(x, y) == x.n < y.n \/ (x.n = y.n /\ x.e < y.e)
FloatMax(x, y) == IF FloatLess(x, y) THEN y ELSE x
FloatMin(x, y) == IF FloatLess(y, x) THEN y ELSE x

\* second + interval * 0.1
cellStartTime(d) == [n |-> d.second * IntervalsPerSecond + d.interval, e |-> 0]

\* cellStartTime + 0.1
cellEndTime(d) ==
    [n |-> d.second * IntervalsPerSecond + d.interval + 1,
     e |-> IF <<d.second, d.interval>> \in DriftUp THEN 1
           ELSE IF <<d.second, d.interval>> \in DriftDown THEN -1 ELSE 0]

\* a plausible slip: the end of the range taken at the start of the last cell
DerivedRangeStartOnly(cells) ==
    LET ds == { ParseCellId(id) : id \in cells }
        lo == CHOOSE d \in ds : \A o \in ds : ~FloatLess(cellStartTime(o), cellStartTime(d))
        hi == CHOOSE d \in ds : \A o \in ds : ~FloatLess(cellStartTime(d), cellStartTime(o))
    IN [min |-> cellStartTime(lo), max |-> cellStartTime(hi)]

\* a range that ends where the earliest selected cell ends
DerivedRangeOfFirstCell(cells) ==
    LET ds == { ParseCellId(id) : id \in cells }
        lo == CHOOSE d \in ds : \A o \in ds : ~FloatLess(cellStartTime(o), cellStartTime(d))
    IN [min |-> cellStartTime(lo), max |-> cellEndTime(lo)]

\* the range handleMouseUp derives from a non-empty selection
DerivedRange(cells) ==
    LET ds == { ParseCellId(id) : id \in cells }
        lo == CHOOSE d \in ds : \A o \in ds : ~FloatLess(cellStartTime(o), cellStartTime(d))
        hi == CHOOSE d \in ds : \A o \in ds : ~FloatLess(cellEndTime(d), cellEndTime(o))
    IN [min |-> cellStartTime(lo), max |-> cellEndTime(hi)]

\* Math.max(cellStartTime, timeRange.min) < Math.min(cellEndTime, timeRange.max)
Overlaps(d, range) ==
    FloatLess(FloatMax(cellStartTime(d), range.min), FloatMin(cellEndTime(d), range.max))

\* the highlight effect: the ids of the cells of the grid that overlap the range
HighlightCells(data, range) ==
    IF range = Null THEN {}
    ELSE { getCellId(data[k]) : k \in { k \in 1..Len(data) : Overlaps(data[k], range) } }

\* a band that follows the drag direction: a leftward drag takes the anchor's
\* column up to the anchor and the current column from the current cell on
SpanBandDirected(i, startCell, endCell) ==
    LET lo == IF startCell.second < endCell.second THEN startCell ELSE endCell
        hi == IF startCell.second < endCell.second THEN endCell ELSE startCell
    IN IF startCell.second = endCell.second
       THEN Min2(startCell.interval, endCell.interval)..Max2(startCell.interval, endCell.interval)
       ELSE (IF i = lo.second THEN lo.interval ELSE 0)
               ..(IF i = hi.second THEN hi.interval ELSE IntervalsPerSecond - 1)

\* the interval band of column i in a shift-drag from startCell to endCell
SpanBand(i, startCell, endCell) ==
    LET s1 == IF i = startCell.second THEN startCell.interval ELSE 0
        e1 == IF i = endCell.second THEN endCell.interval ELSE IntervalsPerSecond - 1
        \* both direction branches assign the same
        e2 == IF i = startCell.second THEN IntervalsPerSecond - 1 ELSE e1
        s2 == IF i = endCell.second THEN 0 ELSE s1
        startInterval == IF startCell.second = endCell.second
                         THEN Min2(startCell.interval, endCell.interval) ELSE s2
        endInterval == IF startCell.second = endCell.second
                       THEN Max2(startCell.interval, endCell.interval) ELSE e2
    IN startInterval..endInterval

\* requiredIds of a shift-drag
RequiredIds(startCell, endCell) ==
    LET minCol == Min2(startCell.second, endCell.second)
        maxCol == Max2(startCell.second, endCell.second)
    IN { getCellId([second |-> i, interval |-> j]) :
            i \in { i \in minCol..maxCol : TRUE }, j \in 0..(IntervalsPerSecond - 1) }
       \cap UNION { { getCellId([second |-> i, interval |-> j]) : j \in SpanBand(i, startCell, endCell) }
                    : i \in minCol..maxCol }

\* the rects of the grid whose id is required
RectsIn(data, ids) == { getCellId(data[k]) : k \in 1..Len(data) } \cap ids

-----------------------------------------------------------------------------
(* The grid selection as a state machine over one displayed grid *)

SelCells == << <<0, 0>>, <<0, 1>>, <<0, 5>>, <<1, 1>>, <<1, 2>>, <<2, 3>> >>

\* a sorted trace with one sample in each of SelCells
SelTrace ==
    [k \in 1..Len(SelCells) |->
        [stack |-> <<"a">>,
         time |-> (SelCells[k][1] * IntervalsPerSecond + SelCells[k][2]) * Res,
         process |-> "p", cpuCost |-> 1]]

\* the data prop of the Heatmap: originalData.heatmap.data
SelData == buildHeatmapData(SelTrace).data

SelRects == { [second |-> SelData[k].second, interval |-> SelData[k].interval] : k \in 1..Len(SelData) }

SelInit ==
    /\ samples = SelTrace
    /\ phase = "grid"
    /\ TreeIdle
    /\ heatmap = buildHeatmapData(SelTrace)
    /\ SelIdle
    /\ ExtIdle

\* App.setTimeRange(r) and the re-render it causes: MainContent is a new
\* component type on every App render, so the Heatmap is mounted afresh
\* (empty selection, no gesture) and its highlight effect runs on r.
\* setTimeRange(null) while timeRange is null changes no state: no render.
onTimeRangeSelect(r) ==
    IF r = Null /\ timeRange = Null
    THEN /\ UNCHANGED <<timeRange, selectedCells, cellsToHighlight>>
    ELSE /\ timeRange' = r
         /\ selectedCells' = {}
         /\ cellsToHighlight' = HighlightCells(heatmap.data, r)

handleMouseUp ==
    IF ~isSelecting
    THEN UNCHANGED selVars
    ELSE /\ isSelecting' = FALSE
         /\ selectionAnchor' = Null
         /\ finalized' = selectedCells
         /\ UNCHANGED <<gapDrag, plainDrag>>
         /\ IF selectedCells = {}
            THEN onTimeRangeSelect(Null)
            ELSE onTimeRangeSelect(DerivedRange(selectedCells))

\* a mousedown that adds the pressed cell in the ctrl/cmd branch only
mousedownCellsAddOnKeep(d, shiftKey, ctrlOrMeta) ==
    IF shiftKey \/ ~ctrlOrMeta THEN {} ELSE selectedCells \cup {getCellId(d)}

\* selectedCells after the mousedown handler of the rect of cell d
mousedownCells(d, shiftKey, ctrlOrMeta) ==
    (IF shiftKey \/ ~ctrlOrMeta THEN {} ELSE selectedCells) \cup {getCellId(d)}

\* .on("mousedown") of the rect of cell d
mousedown(d, shiftKey, ctrlOrMeta) ==
    /\ isSelecting' = TRUE
    /\ selectionAnchor' = d
    /\ selectedCells' = mousedownCells(d, shiftKey, ctrlOrMeta)
    /\ finalized' = NoFinalized
    /\ gapDrag' = FALSE
    /\ plainDrag' = IF shiftKey \/ ctrlOrMeta THEN NoPlainDrag
                    ELSE [plain |-> TRUE, down |-> getCellId(d), hovered |-> {}]
    /\ UNCHANGED <<timeRange, cellsToHighlight>>
    /\ UNCHANGED <<samples, phase, treeVars, heatmap, extVars>>

MouseDown ==
    \E d \in SelRects, shiftKey \in BOOLEAN, ctrlOrMeta \in BOOLEAN :
        mousedown(d, shiftKey, ctrlOrMeta)

\* the selection a shift hover starts from: cleared unless ctrl/cmd is held too
ShiftBaseKeep(ctrlOrMeta, cells) == cells

ShiftBase(ctrlOrMeta, cells) == IF ~ctrlOrMeta THEN {} ELSE cells

\* the non-shift branch of mouseover with every selected cell put back
PlainHoverToggle(cells, id) == IF id \in cells THEN cells \ {id} ELSE cells \cup {id}

\* the non-shift branch of mouseover: the hovered cell is added
PlainHover(cells, id) == cells \cup {id}

\* selectedCells after the mouseover handler of the rect of cell d
mouseoverCells(d, shiftKey, ctrlOrMeta) ==
    IF isSelecting
    THEN IF shiftKey /\ selectionAnchor # Null
         THEN ShiftBase(ctrlOrMeta, selectedCells)
                 \cup RectsIn(heatmap.data, RequiredIds(selectionAnchor, d))
         ELSE IF ~shiftKey
              THEN PlainHover(selectedCells, getCellId(d))
              ELSE selectedCells
    ELSE selectedCells

\* .on("mouseover") of the rect of cell d
mouseover(d, shiftKey, ctrlOrMeta) ==
    /\ selectedCells' = mouseoverCells(d, shiftKey, ctrlOrMeta)
    /\ gapDrag' = (gapDrag \/ (/\ isSelecting /\ shiftKey /\ selectionAnchor # Null
                                /\ Max2(selectionAnchor.second, d.second)
                                     - Min2(selectionAnchor.second, d.second) > 1))
    /\ plainDrag' = IF ~isSelecting THEN plainDrag
                    ELSE IF shiftKey \/ ctrlOrMeta \/ ~plainDrag.plain THEN NoPlainDrag
                    ELSE [plainDrag EXCEPT !.hovered = @ \cup {getCellId(d)}]
    /\ UNCHANGED <<isSelecting, selectionAnchor, timeRange, cellsToHighlight, finalized>>
    /\ UNCHANGED <<samples, phase, treeVars, heatmap, extVars>>

MouseOver ==
    \E d \in SelRects, shiftKey \in BOOLEAN, ctrlOrMeta \in BOOLEAN :
        mouseover(d, shiftKey, ctrlOrMeta)

\* svg.on('mouseup', handleMouseUp)
MouseUp ==
    /\ handleMouseUp
    /\ UNCHANGED <<samples, phase, treeVars, heatmap, extVars>>

\* svg.on('mouseleave'): finalizes only while the primary button is pressed
mouseleave(buttons) ==
    /\ IF buttons # 1 THEN UNCHANGED selVars ELSE handleMouseUp
    /\ UNCHANGED <<samples, phase, treeVars, heatmap, extVars>>

MouseLeave == \E buttons \in {0, 1} : mouseleave(buttons)

\* the Clear Selection button
handleClearSelection ==
    /\ onTimeRangeSelect(Null)
    /\ IF timeRange = Null
       THEN UNCHANGED <<isSelecting, selectionAnchor>>
       ELSE isSelecting' = FALSE /\ selectionAnchor' = Null
    /\ UNCHANGED <<finalized, gapDrag, plainDrag>>
    /\ UNCHANGED <<samples, phase, treeVars, heatmap, extVars>>

SelNext == MouseDown \/ MouseOver \/ MouseUp \/ MouseLeave \/ handleClearSelection

SpecSel == SelInit /\ [][SelNext]_vars


-----------------------------------------------------------------------------
(* parsePerfScript: a line is a sequence of one-character strings *)

Space == { " ", "\t", "\r" }
Digits == { "0", "1", "2", "3", "4", "5", "6", "7", "8", "9" }
DigitsDot == Digits \cup { "." }
NaN == -2                  \* stands for the float NaN

DigitVal(c) ==
    CASE c = "0" -> 0 [] c = "1" -> 1 [] c = "2" -> 2 [] c = "3" -> 3 [] c = "4" -> 4
      [] c = "5" -> 5 [] c = "6" -> 6 [] c = "7" -> 7 [] c = "8" -> 8 [] c = "9" -> 9

RECURSIVE Pow10(_)
Pow10(k) == IF k = 0 THEN 1 ELSE 10 * Pow10(k - 1)

RECURSIVE Join(_)
\* the string made of the characters cs
Join(cs) == IF cs = <<>> THEN "" ELSE Head(cs) \o Join(Tail(cs))

RECURSIVE SkipIn(_, _, _)
\* the index after the longest run of characters of cls that starts at i
SkipIn(line, i, cls) ==
    IF i <= Len(line) /\ line[i] \in cls THEN SkipIn(line, i + 1, cls) ELSE i

RECURSIVE SkipNotIn(_, _, _)
SkipNotIn(line, i, cls) ==
    IF i <= Len(line) /\ line[i] \notin cls THEN SkipNotIn(line, i + 1, cls) ELSE i

CharAt(line, i, c) == i <= Len(line) /\ line[i] = c

RECURSIVE parseInt(_)
parseInt(ds) ==
    IF ds = <<>> THEN 0 ELSE 10 * parseInt(SubSeq(ds, 1, Len(ds) - 1)) + DigitVal(ds[Len(ds)])

\* parseFloat of a run of digits and dots, in ticks: the longest prefix
\* digits [. digits] that holds a digit, NaN if there is none
parseFloat(cs) ==
    LET e1 == SkipIn(cs, 1, Digits)
        e2 == IF CharAt(cs, e1, ".") THEN SkipIn(cs, e1 + 1, Digits) ELSE e1
        whole == SubSeq(cs, 1, e1 - 1)
        frac == SubSeq(cs, e1 + 1, e2 - 1)
    IN IF whole = <<>> /\ frac = <<>>
       THEN NaN
       ELSE parseInt(whole) * TicksPerSecond
            + (parseInt(frac) * TicksPerSecond) \div Pow10(Len(frac))

\* line.match(/^(\S+)\s+(\d+)\s+\[(\d+)\]\s+([\d.]+):/): Null or the groups
MatchHeader(line) ==
    LET e1 == SkipNotIn(line, 1, Space)
        e2 == SkipIn(line, e1, Space)
        e3 == SkipIn(line, e2, Digits)
        e4 == SkipIn(line, e3, Space)
        e5 == SkipIn(line, e4 + 1, Digits)
        e6 == SkipIn(line, e5 + 1, Space)
        e7 == SkipIn(line, e6, DigitsDot)
    IN IF /\ e1 > 1 /\ e2 > e1 /\ e3 > e2 /\ e4 > e3
          /\ CharAt(line, e4, "[") /\ e5 > e4 + 1
          /\ CharAt(line, e5, "]") /\ e6 > e5 + 1
          /\ e7 > e6 /\ CharAt(line, e7, ":")
       THEN [processName |-> Join(SubSeq(line, 1, e1 - 1)),
             cumulativeCpuCost |-> parseInt(SubSeq(line, e2, e3 - 1)),
             cpu |-> parseInt(SubSeq(line, e4 + 1, e5 - 1)),
             time |-> parseFloat(SubSeq(line, e6, e7 - 1))]
       ELSE Null

RECURSIVE TrimEnd(_)
TrimEnd(line) ==
    IF line # <<>> /\ line[Len(line)] \in Space
    THEN TrimEnd(SubSeq(line, 1, Len(line) - 1)) ELSE line

Trim(line) == TrimEnd(SubSeq(line, SkipIn(line, 1, Space), Len(line)))

RECURSIVE Split(_, _)
\* cs.split(sep): the pieces between the occurrences of the character sep
Split(cs, sep) ==
    LET e == SkipNotIn(cs, 1, {sep})
    IN IF e > Len(cs) THEN <<cs>>
       ELSE <<SubSeq(cs, 1, e - 1)>> \o Split(SubSeq(cs, e + 1, Len(cs)), sep)

ReplaceSemicolons(cs) == [i \in 1..Len(cs) |-> IF cs[i] = ";" THEN "." ELSE cs[i]]

\* frame.split('+')[0], then the 'L' prefix rule
CleanFrame(frame) ==
    LET cleanFrame == Split(frame, "+")[1]
    IN IF cleanFrame # <<>> /\ cleanFrame[1] = "L"
       THEN ReplaceSemicolons(Tail(cleanFrame))
       ELSE cleanFrame

\* a variant that adds the frame at the end of the stack
StackLinePush(currentSample, line) ==
    LET tokens == Split(Trim(line), " ")
    IN IF Len(tokens) >= 2 /\ tokens[2] # <<>>
       THEN [currentSample EXCEPT !.stack = Append(@, Join(CleanFrame(tokens[2])))]
       ELSE currentSample

\* the else-branch of the line loop: the frame of a stack line, if any,
\* goes to the front of the current sample's stack
StackLine(currentSample, line) ==
    LET tokens == Split(Trim(line), " ")
    IN IF Len(tokens) >= 2 /\ tokens[2] # <<>>
       THEN [currentSample EXCEPT !.stack = <<Join(CleanFrame(tokens[2]))>> \o @]
       ELSE currentSample

FormatError == "Invalid file format: No sample headers found."
EmptyTraceError == "No complete samples could be parsed."

\* lastCpuCostByCpu.get(cpu) || 0
LastCpuCost(lastCpuCostByCpu, cpu) ==
    IF cpu \in DOMAIN lastCpuCostByCpu THEN lastCpuCostByCpu[cpu] ELSE 0

MapSet(m, k, v) == [c \in DOMAIN m \cup {k} |-> IF c = k THEN v ELSE m[c]]

\* a variant that keeps the stored counter when the new one is lower
StoredCounterKeepMax(lastCpuCost, cumulativeCpuCost) == Max2(lastCpuCost, cumulativeCpuCost)

\* lastCpuCostByCpu.set(cpu, cumulativeCpuCost): the value stored for the cpu
StoredCounter(lastCpuCost, cumulativeCpuCost) == cumulativeCpuCost

\* one iteration of the line loop
ParseLine(acc, line) ==
    LET match == MatchHeader(line)
    IN IF match # Null
       THEN LET intervalCpuCost == match.cumulativeCpuCost
                                     - LastCpuCost(acc.lastCpuCostByCpu, match.cpu)
            IN [samples |-> IF acc.currentSample # Null
                            THEN Append(acc.samples, acc.currentSample)
                            ELSE acc.samples,
                currentSample |-> [stack |-> <<>>, time |-> match.time,
                                   process |-> match.processName,
                                   cpuCost |-> Max2(0, intervalCpuCost)],
                foundSampleHeader |-> TRUE,
                lastCpuCostByCpu |->
                    MapSet(acc.lastCpuCostByCpu, match.cpu,
                           StoredCounter(LastCpuCost(acc.lastCpuCostByCpu, match.cpu),
                                         match.cumulativeCpuCost))]
       ELSE IF acc.currentSample # Null /\ Trim(line) # <<>>
            THEN [acc EXCEPT !.currentSample = StackLine(@, line)]
            ELSE acc

RECURSIVE ParseLines(_, _)
ParseLines(acc, ls) ==
    IF ls = <<>> THEN acc ELSE ParseLines(ParseLine(acc, Head(ls)), Tail(ls))

\* a variant that takes the absence of a flushed sample for the absence of a header
NoSampleFlushed(acc) == acc.samples = <<>>

\* if (!foundSampleHeader) throw
NoHeaderFound(acc) == ~acc.foundSampleHeader

parsePerfScript(ls) ==
    LET acc == ParseLines([samples |-> <<>>, currentSample |-> Null,
                           foundSampleHeader |-> FALSE, lastCpuCostByCpu |-> <<>>], ls)
        all == IF acc.currentSample # Null
               THEN Append(acc.samples, acc.currentSample) ELSE acc.samples
    IN IF NoHeaderFound(acc) THEN [threw |-> TRUE, message |-> FormatError]
       ELSE IF Len(all) = 0 THEN [threw |-> TRUE, message |-> EmptyTraceError]
       ELSE [threw |-> FALSE, samples |-> all]

-----------------------------------------------------------------------------
(* The parser as a state machine over the lines of a text *)

MaxLines == 4

HeaderA == <<"p", " ", "5", " ", "[", "0", "]", " ", "0", ".", "0", ":">>
HeaderB == <<"p", " ", "3", " ", "[", "0", "]", " ", "0", ".", "1", ":", " ", "c", "y", "c", "l", "e", "s", ":">>
HeaderC == <<"q", " ", "9", " ", "[", "1", "]", " ", "1", ".", "0", ":">>
NoCpuLine == <<"c", " ", "1", "2", " ", "0", ".", "1", ":">>
IndentedHeader == <<" ", "p", " ", "5", " ", "[", "0", "]", " ", "0", ".", "0", ":">>
FrameA == <<"\t", "1", "f", " ", "a", "+", "0", "x", "1", " ", "(", "x", ")">>
FrameL == <<" ", "2", "f", " ", "L", "a", ";", "b">>
OneToken == <<"x">>
BlankLine == <<>>
DoubleSpace == <<"1", "f", " ", " ", "b">>

HeaderD == <<"q", " ", "9", " ", "[", "1", "]", " ", "2", ".", "5", ":">>

TextLines == { HeaderA, HeaderB, HeaderC, HeaderD, NoCpuLine, IndentedHeader,
               FrameA, FrameL, OneToken, BlankLine, DoubleSpace }

\* text.split('\n') of any text holds at least one line
ParseInit ==
    /\ samples = <<>>
    /\ phase = "input"
    /\ TreeIdle
    /\ GridIdle
    /\ SelIdle
    /\ \E l \in TextLines : lines = <<l>>
    /\ parsed = Null
    /\ AppIdle
    /\ ViewIdle

AddLine ==
    /\ phase = "input"
    /\ Len(lines) < MaxLines
    /\ \E l \in TextLines : lines' = Append(lines, l)
    /\ UNCHANGED <<samples, phase, treeVars, gridVars, selVars, parsed, appVars, viewVars>>

Parse ==
    /\ phase = "input"
    /\ parsed' = parsePerfScript(lines)
    /\ phase' = "parsed"
    /\ UNCHANGED <<samples, treeVars, gridVars, selVars, lines, appVars, viewVars>>

ParseNext == AddLine \/ Parse

SpecParse == ParseInit /\ [][ParseNext]_vars

-----------------------------------------------------------------------------
(* The worker's message handler and the App: file loads, worker replies,   *)
(* the filter effect, the time range and the view switch                    *)

MaxLoads == 2

\* the {data, maxTime, maxCount, firstTime} object of a grid that was built
HeatmapData(h) ==
    [data |-> h.data, maxTime |-> h.maxTime, maxCount |-> h.maxCount, firstTime |-> h.firstTime]

\* self.onmessage of the worker: the message posted for a file content
WorkerReply(fileContent) ==
    LET p == parsePerfScript(fileContent)
    IN IF p.threw
       THEN [status |-> "error", message |-> p.message]
       ELSE LET h == buildHeatmapData(p.samples)
            IN IF h.threw
               THEN [status |-> "error", message |-> "TypeError"]
               ELSE [status |-> "success",
                     flamegraphData |-> buildFlamegraphData(p.samples),
                     heatmapData |-> HeatmapData(h)]

RECURSIVE AssignPaths(_, _)
\* node._path = parentPath + '/' + node.name, over the whole tree
AssignPaths(node, parentPath) ==
    LET p == parentPath \o "/" \o node.name
    IN [node EXCEPT !.path = p,
                    !.children = [i \in 1..Len(node.children) |->
                                     AssignPaths(node.children[i], p)]]

DefaultRoot == [name |-> "root", value |-> 0, children |-> <<>>]

\* timeRange.min and timeRange.max in ticks (the rounding drift of a cell
\* bound is below the resolution of the sample times)
RangeTicks(x) == x.n * Res

\* the body of the filter effect for a non-null originalData
FilterEffectResult(original, range) ==
    LET firstTime == IF original.heatmap.firstTime = Undefined
                     THEN 0 ELSE original.heatmap.firstTime
        filtered == IF range # Null
                    THEN filterFlamegraph(original.flamegraph,
                                          firstTime + RangeTicks(range.min),
                                          firstTime + RangeTicks(range.max))
                    ELSE filterFlamegraph(original.flamegraph,
                                          OrZero(original.flamegraph.startTime),
                                          IF Truthy(original.flamegraph.endTime)
                                          THEN original.flamegraph.endTime ELSE Infinity)
    IN [flamegraph |-> IF filtered # Null THEN filtered ELSE DefaultRoot,
        heatmap |-> original.heatmap]

FileA == <<HeaderA, FrameA, HeaderB, FrameA, FrameL, HeaderC, FrameA>>
FileB == <<HeaderC, FrameL, HeaderD, FrameA>>
FileX == <<NoCpuLine, FrameA>>
Files == { FileA, FileB, FileX }

AppInit ==
    /\ samples = <<>>
    /\ phase = "app"
    /\ TreeIdle
    /\ GridIdle
    /\ SelIdle
    /\ ExtIdle

\* MainContent shows the views: not loading, no error, filteredData set
ViewsShown == ~isLoading /\ error = Null /\ filteredData # Null

appOther == <<samples, phase, treeVars, gridVars, selectedCells, isSelecting,
              selectionAnchor, cellsToHighlight, finalized, gapDrag, plainDrag, parseVars,
              viewVars>>

\* An effect that is still pending when a handler sets state runs before the
\* render of that handler's updates, with the originalData and timeRange of
\* the committed render: its setFilteredData comes after the handler's own.
FlushedFilteredData(handlerValue) ==
    IF effectPending /\ originalData # Null
    THEN FilterEffectResult(originalData, timeRange)
    ELSE handlerValue

\* the user picks a file; its FileReader is started
handleFileChange ==
    /\ Len(loaded) < MaxLoads
    /\ \E file \in Files : loaded' = Append(loaded, file)
    /\ isLoading' = TRUE
    /\ error' = Null
    /\ originalData' = Null
    /\ filteredData' = FlushedFilteredData(Null)
    /\ timeRange' = Null
    /\ rangeOn' = Null
    /\ effectPending' = FALSE
    /\ reading' = reading \cup {Len(loaded) + 1}
    /\ UNCHANGED <<view, inbox, outbox, appOther>>

\* reader.onload of one of the started readers: the content goes to the worker
ReaderOnLoad ==
    /\ \E i \in reading :
          /\ inbox' = Append(inbox, loaded[i])
          /\ reading' = reading \ {i}
    /\ UNCHANGED <<originalData, filteredData, error, isLoading, view, outbox,
                   effectPending, loaded, rangeOn, timeRange, appOther>>

\* a worker that posts nothing when the parse fails
WorkerOnMessageSilentError ==
    /\ inbox # <<>>
    /\ outbox' = IF WorkerReply(Head(inbox)).status = "error" THEN outbox
                  ELSE Append(outbox, WorkerReply(Head(inbox)))
    /\ inbox' = Tail(inbox)
    /\ UNCHANGED <<originalData, filteredData, error, isLoading, view, reading,
                   effectPending, loaded, rangeOn, timeRange, appOther>>

\* the worker handles its next message
WorkerOnMessage ==
    /\ inbox # <<>>
    /\ outbox' = Append(outbox, WorkerReply(Head(inbox)))
    /\ inbox' = Tail(inbox)
    /\ UNCHANGED <<originalData, filteredData, error, isLoading, view, reading,
                   effectPending, loaded, rangeOn, timeRange, appOther>>

\* workerRef.current.onmessage of the App, and the render it causes
AppOnMessage ==
    /\ outbox # <<>>
    /\ outbox' = Tail(outbox)
    /\ isLoading' = FALSE
    /\ LET m == Head(outbox)
       IN IF m.status = "success"
          THEN /\ originalData' = [flamegraph |-> AssignPaths(m.flamegraphData, ""),
                                   heatmap |-> m.heatmapData]
               /\ error' = Null
               /\ effectPending' = TRUE
               /\ filteredData' = FlushedFilteredData(filteredData)
          ELSE /\ error' = [message |-> m.message]
               /\ originalData' = Null
               /\ filteredData' = FlushedFilteredData(Null)
               /\ effectPending' = FALSE
    /\ UNCHANGED <<view, reading, inbox, loaded, rangeOn, timeRange, appOther>>

\* the effect on [timeRange, originalData], run after the render was committed
FilterEffect ==
    /\ effectPending
    /\ effectPending' = FALSE
    /\ IF originalData = Null
       THEN UNCHANGED filteredData
       ELSE filteredData' = FilterEffectResult(originalData, timeRange)
    /\ UNCHANGED <<originalData, error, isLoading, view, reading, inbox, outbox,
                   loaded, rangeOn, timeRange, appOther>>

\* the ranges the shown Heatmap can pass to onTimeRangeSelect
SelectableRanges(h) ==
    { DerivedRange({getCellId(h.data[i]), getCellId(h.data[j])}) :
        i \in 1..Len(h.data), j \in 1..Len(h.data) } \cup { Null }

\* onTimeRangeSelect={setTimeRange} called by the shown Heatmap
setTimeRange ==
    /\ ViewsShown
    /\ view = "heatmap"
    /\ \E r \in SelectableRanges(originalData.heatmap) :
          /\ ~(r = Null /\ timeRange = Null)
          /\ timeRange' = r
          /\ rangeOn' = IF r = Null THEN Null ELSE originalData.heatmap
    /\ filteredData' = FlushedFilteredData(filteredData)
    /\ effectPending' = TRUE
    /\ UNCHANGED <<originalData, error, isLoading, view, reading, inbox,
                   outbox, loaded, appOther>>

\* the view buttons
setView ==
    /\ ViewsShown
    /\ \E v \in {"flamegraph", "heatmap"} :
          /\ v # view
          /\ view' = v
    /\ filteredData' = FlushedFilteredData(filteredData)
    /\ effectPending' = FALSE
    /\ UNCHANGED <<originalData, error, isLoading, reading, inbox, outbox,
                   loaded, rangeOn, timeRange, appOther>>

AppNext ==
    \/ handleFileChange
    \/ ReaderOnLoad
    \/ WorkerOnMessage
    \/ AppOnMessage
    \/ FilterEffect
    \/ setTimeRange
    \/ setView

SpecApp == AppInit /\ [][AppNext]_vars

\* the worker's event loop takes the message at the head of its queue (the
\* step of WorkerOnMessage on the queue: no other action shortens inbox)
WorkerTakesMessage == inbox # <<>> /\ inbox' = Tail(inbox)

\* the worker's event loop handles every message that was posted to it
SpecAppLive == AppInit /\ [][AppNext]_vars /\ WF_inbox(WorkerTakesMessage)

-----------------------------------------------------------------------------
(* FlameGraph: the hierarchy built from the data prop, and the prune and   *)
(* collapse marks and the re-sum of the render effect                       *)

MaxGeneration == 3

RECURSIVE InsertByValue(_, _)
\* insertion into a sequence sorted by value, largest first, after its equals
InsertByValue(sorted, node) ==
    IF sorted = <<>> THEN <<node>>
    ELSE IF Head(sorted).value >= node.value
         THEN <<Head(sorted)>> \o InsertByValue(Tail(sorted), node)
         ELSE <<node>> \o sorted

RECURSIVE SortByValue(_)
\* children.sort((a, b) => b.value - a.value), a stable sort
SortByValue(nodes) ==
    IF nodes = <<>> THEN <<>>
    ELSE InsertByValue(SortByValue(SubSeq(nodes, 1, Len(nodes) - 1)), nodes[Len(nodes)])

RECURSIVE DataEffect(_, _, _)
\* the effect on [data]: d3.hierarchy(data), sum(d => d.value), sort, and
\* _path = parent._path + '/' + name (the root's _path is its name)
DataEffect(d, parentPath, isRoot) ==
    LET p == IF isRoot THEN d.name ELSE parentPath \o "/" \o d.name
        kids == [i \in 1..Len(d.children) |-> DataEffect(d.children[i], p, FALSE)]
    IN [data |-> [name |-> d.name, value |-> d.value, path |-> p,
                  collapsed |-> FALSE, pruned |-> FALSE],
        value |-> d.value + SumSeq([i \in 1..Len(kids) |-> kids[i].value]),
        children |-> SortByValue(kids)]

\* a lookup that takes every recorded name as collapsed
IsCollapsedOnceSet(collapsed, name) == name \in DOMAIN collapsed

\* collapsedNodes.get(name) ?? false
IsCollapsed(collapsed, name) == IF name \in DOMAIN collapsed THEN collapsed[name] ELSE FALSE

RECURSIVE MarkNodes(_, _, _)
\* first pass over root.copy(): _collapsed by name, _pruned by path
MarkNodes(node, collapsed, pruned) ==
    [node EXCEPT !.data.collapsed = IsCollapsed(collapsed, node.data.name),
                 !.data.pruned = node.data.path \in pruned,
                 !.children = [i \in 1..Len(node.children) |->
                                  MarkNodes(node.children[i], collapsed, pruned)]]

RECURSIVE PropagatePruned(_, _)
\* second pass: every node below a pruned node is pruned
PropagatePruned(node, inherited) ==
    LET p == inherited \/ node.data.pruned
    IN [node EXCEPT !.data.pruned = p,
                    !.children = [i \in 1..Len(node.children) |->
                                     PropagatePruned(node.children[i], p)]]

\* a variant of the re-sum that counts a pruned node's own value
OwnValueAlways(d) == d.value

\* (node.data && !node.data._pruned) ? node.data.value : 0
OwnValue(d) == IF ~d.pruned THEN d.value ELSE 0

RECURSIVE Resum(_)
\* third pass, children first: own value unless pruned, plus the children's values
Resum(node) ==
    LET kids == [i \in 1..Len(node.children) |-> Resum(node.children[i])]
    IN [node EXCEPT !.children = kids,
                    !.value = OwnValue(node.data)
                              + SumSeq([i \in 1..Len(kids) |-> kids[i].value])]

\* the part of the render effect that prepares the hierarchy for the layout
RenderEffect(d, collapsed, pruned) ==
    Resum(PropagatePruned(MarkNodes(DataEffect(d, "", TRUE), collapsed, pruned), FALSE))

RECURSIVE Positions(_)
\* the nodes of a hierarchy, each named by the child indexes that lead to it
Positions(node) ==
    { <<>> } \cup UNION { { <<i>> \o q : q \in Positions(node.children[i]) } :
                          i \in 1..Len(node.children) }

RECURSIVE At(_, _)
At(node, pos) == IF pos = <<>> THEN node ELSE At(node.children[Head(pos)], Tail(pos))

Prefixes(pos) == { SubSeq(pos, 1, k) : k \in 0..Len(pos) }

\* root.descendants().filter(...) without the horizontal test against the zoomed
\* node: positive value, not pruned, no collapsed ancestor
Drawn(root) ==
    { pos \in Positions(root) :
        /\ At(root, pos).value > 0
        /\ ~At(root, pos).data.pruned
        /\ \A q \in Prefixes(pos) \ {pos} : ~At(root, q).data.collapsed }

\* Horizontal layout of d3.partition().size([width, height]).padding(1), in
\* units of half a pixel, a division rounded down to a unit.
LayoutWidth == 240
Padding == 2

RECURSIVE SumValues(_, _)
\* the sum of the values of the first n children
SumValues(children, n) == IF n = 0 THEN 0 ELSE SumValues(children, n - 1) + children[n].value

RECURSIVE partition(_, _, _)
\* positionNode: the children share the node's span from the left in
\* proportion to value / node.value, then the node gives up the padding
partition(node, x0, x1) ==
    LET offset(n) == IF node.value = 0 THEN 0
                     ELSE (SumValues(node.children, n) * (x1 - x0)) \div node.value
        kids == [i \in 1..Len(node.children) |->
                    partition(node.children[i], x0 + offset(i - 1), x0 + offset(i))]
        px1 == x1 - Padding
    IN [data |-> node.data, value |-> node.value, children |-> kids,
        x0 |-> IF px1 < x0 THEN (x0 + px1) \div 2 ELSE x0,
        x1 |-> IF px1 < x0 THEN (x0 + px1) \div 2 ELSE px1]

\* partition(root): the root starts at the padding and ends at the width
PartitionRoot(root) == partition(root, Padding, LayoutWidth)

RECURSIVE NextLevel(_, _)
\* the positions of the children of the nodes at the positions ps, in order
NextLevel(root, ps) ==
    IF ps = <<>> THEN <<>>
    ELSE [i \in 1..Len(At(root, Head(ps)).children) |-> Head(ps) \o <<i>>]
            \o NextLevel(root, Tail(ps))

RECURSIVE BreadthFirst(_, _)
\* root.each: the positions level by level, from the level ps on
BreadthFirst(root, ps) ==
    IF ps = <<>> THEN <<>> ELSE ps \o BreadthFirst(root, NextLevel(root, ps))

\* z: the root, or the last node in root.each order whose _path is the
\* _path of the zoom target
ZoomNode(root, zoom) ==
    LET order == BreadthFirst(root, << <<>> >>)
        hits == { i \in 1..Len(order) : At(root, order[i]).data.path = zoom.path }
    IN IF zoom = Null \/ hits = {} THEN <<>>
       ELSE order[CHOOSE i \in hits : \A j \in hits : j <= i]

\* d.x1 > z.x0 && d.x0 < z.x1
OverlapsZoom(d, z) == d.x1 > z.x0 /\ d.x0 < z.x1

\* root.descendants().filter(...): the nodes that are drawn
visibleNodes(root, zoom) ==
    LET laid == PartitionRoot(root)
        z == At(laid, ZoomNode(root, zoom))
    IN { pos \in Drawn(root) : OverlapsZoom(At(laid, pos), z) }

\* zoomTarget.ancestors().reverse().slice(1), cut to two and two beyond five:
\* the nodes the breadcrumb links lead to
BreadcrumbNodes(pos) ==
    LET ancestors == { SubSeq(pos, 1, k) : k \in 1..Len(pos) }
    IN IF Len(pos) <= 5 THEN ancestors
       ELSE { q \in ancestors : Len(q) <= 2 \/ Len(q) > Len(pos) - 2 }

\* a prune that records the path of the menu's node alone
SubtreePathsOwn(node) == { node.data.path }

\* contextMenu.node.each(node => newSet.add(node.data._path))
SubtreePaths(node) == { At(node, q).data.path : q \in Positions(node) }

RECURSIVE AnnotateData(_, _, _, _, _, _)
\* the data prop after the effects have run: the hierarchy nodes hold the
\* objects of the data prop in node.data, so _path, _collapsed and _pruned
\* are written into these objects (the children arrays keep their order)
AnnotateData(d, parentPath, isRoot, collapsed, pruned, inherited) ==
    LET p == IF isRoot THEN d.name ELSE parentPath \o "/" \o d.name
        pr == inherited \/ p \in pruned
        kids == [i \in 1..Len(d.children) |->
                    AnnotateData(d.children[i], p, FALSE, collapsed, pruned, pr)]
    IN [f \in DOMAIN d \cup {"path", "collapsed", "pruned"} |->
            CASE f = "path" -> p
              [] f = "collapsed" -> IsCollapsed(collapsed, d.name)
              [] f = "pruned" -> pr
              [] f = "children" -> kids
              [] OTHER -> d[f]]

ViewTraces ==
    { << [stack |-> <<"a">>, time |-> 1, process |-> "p", cpuCost |-> 1] >>,
      << [stack |-> <<"a", "b">>, time |-> 1, process |-> "p", cpuCost |-> 1],
         [stack |-> <<"a", "c">>, time |-> 2, process |-> "p", cpuCost |-> 1],
         [stack |-> <<"a">>, time |-> 3, process |-> "p", cpuCost |-> 2] >>,
      << [stack |-> <<"a", "b">>, time |-> 1, process |-> "p", cpuCost |-> 1],
         [stack |-> <<"b">>, time |-> 2, process |-> "p", cpuCost |-> 1],
         [stack |-> <<"b">>, time |-> 3, process |-> "p", cpuCost |-> 1] >>,
      << [stack |-> <<"a/b">>, time |-> 1, process |-> "p", cpuCost |-> 1],
         [stack |-> <<"a", "b">>, time |-> 2, process |-> "p", cpuCost |-> 1] >>,
      << [stack |-> <<"a", "a", "b">>, time |-> 1, process |-> "p", cpuCost |-> 1],
         [stack |-> <<"c", "a", "d">>, time |-> 2, process |-> "p", cpuCost |-> 1] >> }

\* filteredData.flamegraph of a loaded trace when no time range is set
ViewTree(ss) ==
    FilterEffectResult([flamegraph |-> AssignPaths(buildFlamegraphData(ss), ""),
                        heatmap |-> HeatmapData(buildHeatmapData(ss))], Null).flamegraph

\* the FlameGraph is mounted on the tree of a loaded trace: both effects have run
ViewInit ==
    /\ phase = "view"
    /\ TreeIdle
    /\ GridIdle
    /\ SelIdle
    /\ ParseIdle
    /\ AppIdle
    /\ \E ss \in ViewTraces :
          /\ samples = ss
          /\ flameData = AnnotateData(ViewTree(ss), "", TRUE, <<>>, {}, FALSE)
          /\ shown = RenderEffect(ViewTree(ss), <<>>, {})
    /\ collapsedNodes = <<>>
    /\ prunedNodes = {}
    /\ zoomTarget = Null
    /\ generation = 0
    /\ contextMenu = Null

viewOther == <<samples, phase, treeVars, gridVars, selVars, parseVars, appVars>>

\* right click on a drawn rectangle
handleContextMenu ==
    /\ \E pos \in visibleNodes(shown, zoomTarget) : contextMenu' = [node |-> pos]
    /\ UNCHANGED <<flameData, collapsedNodes, prunedNodes, zoomTarget, generation, shown,
                   viewOther>>

\* the pointer leaves the open menu
ContextMenuLeave ==
    /\ contextMenu # Null
    /\ contextMenu' = Null
    /\ UNCHANGED <<flameData, collapsedNodes, prunedNodes, zoomTarget, generation, shown,
                   viewOther>>

handlePruneNode ==
    /\ contextMenu # Null
    /\ generation < MaxGeneration
    /\ prunedNodes' = prunedNodes \cup SubtreePaths(At(shown, contextMenu.node))
    /\ contextMenu' = Null
    /\ generation' = generation + 1
    /\ shown' = RenderEffect(flameData, collapsedNodes, prunedNodes')
    /\ flameData' = AnnotateData(flameData, "", TRUE, collapsedNodes, prunedNodes', FALSE)
    /\ UNCHANGED <<collapsedNodes, zoomTarget, viewOther>>

handleToggleCollapse ==
    /\ contextMenu # Null
    /\ generation < MaxGeneration
    /\ LET name == At(shown, contextMenu.node).data.name
       IN collapsedNodes' = MapSet(collapsedNodes, name, ~IsCollapsed(collapsedNodes, name))
    /\ contextMenu' = Null
    /\ generation' = generation + 1
    /\ shown' = RenderEffect(flameData, collapsedNodes', prunedNodes)
    /\ flameData' = AnnotateData(flameData, "", TRUE, collapsedNodes', prunedNodes, FALSE)
    /\ UNCHANGED <<prunedNodes, zoomTarget, viewOther>>

handleClearPruned ==
    /\ generation < MaxGeneration
    /\ prunedNodes' = {}
    /\ generation' = generation + 1
    /\ shown' = RenderEffect(flameData, collapsedNodes, prunedNodes')
    /\ flameData' = AnnotateData(flameData, "", TRUE, collapsedNodes, prunedNodes', FALSE)
    /\ UNCHANGED <<collapsedNodes, zoomTarget, contextMenu, viewOther>>

\* the Expand All button: setCollapsedNodes(new Map())
ExpandAll ==
    /\ collapsedNodes # <<>>
    /\ collapsedNodes' = <<>>
    /\ shown' = RenderEffect(flameData, collapsedNodes', prunedNodes)
    /\ flameData' = AnnotateData(flameData, "", TRUE, collapsedNodes', prunedNodes, FALSE)
    /\ UNCHANGED <<prunedNodes, zoomTarget, generation, contextMenu, viewOther>>

\* click on a drawn rectangle: setZoomTarget(d); the render effect runs again
handleClick ==
    /\ \E pos \in visibleNodes(shown, zoomTarget) :
          /\ zoomTarget' = [node |-> pos, path |-> At(shown, pos).data.path]
          /\ zoomTarget' # zoomTarget
    /\ UNCHANGED <<flameData, collapsedNodes, prunedNodes, generation, contextMenu, shown,
                   viewOther>>

\* the Root link of the breadcrumb: setZoomTarget(null)
ZoomRoot ==
    /\ zoomTarget # Null
    /\ zoomTarget' = Null
    /\ UNCHANGED <<flameData, collapsedNodes, prunedNodes, generation, contextMenu, shown,
                   viewOther>>

\* a link of the breadcrumb: setZoomTarget(seg.node)
ZoomBreadcrumb ==
    /\ zoomTarget # Null
    /\ \E pos \in BreadcrumbNodes(zoomTarget.node) :
          /\ pos # zoomTarget.node
          /\ zoomTarget' = [node |-> pos, path |-> At(shown, pos).data.path]
    /\ UNCHANGED <<flameData, collapsedNodes, prunedNodes, generation, contextMenu, shown,
                   viewOther>>

ViewNext ==
    \/ handleClick
    \/ ZoomRoot
    \/ ZoomBreadcrumb
    \/ handleContextMenu
    \/ ContextMenuLeave
    \/ handlePruneNode
    \/ handleToggleCollapse
    \/ handleClearPruned
    \/ ExpandAll

SpecView == ViewInit /\ [][ViewNext]_vars

-----------------------------------------------------------------------------
(* The App with a loaded trace: the view buttons, the Heatmap's range and   *)
(* the FlameGraph that MainContent mounts on filteredData.flamegraph        *)

RebuildTraces ==
    { << [stack |-> <<"a", "b">>, time |-> 0, process |-> "p", cpuCost |-> 1],
         [stack |-> <<"a", "c">>, time |-> Res, process |-> "p", cpuCost |-> 1],
         [stack |-> <<"d">>, time |-> 2 * Res, process |-> "p", cpuCost |-> 1] >> }

\* the state of a FlameGraph that has just been mounted on the data prop d:
\* the useState initial values, then the data effect and the render effect
MountFlameGraph(d) ==
    /\ collapsedNodes' = <<>>
    /\ prunedNodes' = {}
    /\ zoomTarget' = Null
    /\ generation' = 0
    /\ contextMenu' = Null
    /\ flameData' = AnnotateData(d, "", TRUE, <<>>, {}, FALSE)
    /\ shown' = RenderEffect(d, <<>>, {})

\* the FlameGraph is not rendered: its state is gone
UnmountFlameGraph ==
    /\ collapsedNodes' = <<>>
    /\ prunedNodes' = {}
    /\ zoomTarget' = Null
    /\ generation' = 0
    /\ contextMenu' = Null
    /\ flameData' = Null
    /\ shown' = Null

\* a trace has been loaded and filtered with no range; the call tree is shown
RebuildInit ==
    /\ phase = "rebuild"
    /\ TreeIdle
    /\ GridIdle
    /\ SelIdle
    /\ ParseIdle
    /\ \E ss \in RebuildTraces :
          LET original == [flamegraph |-> AssignPaths(buildFlamegraphData(ss), ""),
                           heatmap |-> HeatmapData(buildHeatmapData(ss))]
              filtered == FilterEffectResult(original, Null)
          IN /\ samples = ss
             /\ originalData = original
             /\ filteredData = filtered
             /\ flameData = AnnotateData(filtered.flamegraph, "", TRUE, <<>>, {}, FALSE)
             /\ shown = RenderEffect(filtered.flamegraph, <<>>, {})
    /\ error = Null
    /\ isLoading = FALSE
    /\ view = "flamegraph"
    /\ reading = {}
    /\ inbox = <<>>
    /\ outbox = <<>>
    /\ effectPending = FALSE
    /\ loaded = <<>>
    /\ rangeOn = Null
    /\ collapsedNodes = <<>>
    /\ prunedNodes = {}
    /\ zoomTarget = Null
    /\ generation = 0
    /\ contextMenu = Null

rebuildOther == <<samples, phase, treeVars, gridVars, selectedCells, isSelecting,
                  selectionAnchor, cellsToHighlight, finalized, gapDrag, plainDrag, parseVars,
                  originalData, error, isLoading, reading, inbox, outbox, effectPending,
                  loaded>>

\* the Heatmap button: the App renders MainContent with the Heatmap in the
\* place of the FlameGraph
ShowHeatmap ==
    /\ view = "flamegraph"
    /\ view' = "heatmap"
    /\ UnmountFlameGraph
    /\ UNCHANGED <<filteredData, timeRange, rangeOn, rebuildOther>>

\* the Flame Graph button: a FlameGraph is mounted on filteredData.flamegraph
ShowFlameGraph ==
    /\ view = "heatmap"
    /\ view' = "flamegraph"
    /\ MountFlameGraph(filteredData.flamegraph)
    /\ UNCHANGED <<filteredData, timeRange, rangeOn, rebuildOther>>

\* the shown Heatmap calls onTimeRangeSelect(r); the filter effect of the
\* render that follows rebuilds filteredData
SelectTimeRange ==
    /\ view = "heatmap"
    /\ \E r \in SelectableRanges(originalData.heatmap) :
          /\ r # timeRange
          /\ timeRange' = r
          /\ rangeOn' = IF r = Null THEN Null ELSE originalData.heatmap
          /\ filteredData' = FilterEffectResult(originalData, r)
    /\ UNCHANGED <<view, viewVars, rebuildOther>>

\* an action of the mounted FlameGraph
FlameGraphAction ==
    /\ view = "flamegraph"
    /\ ViewNext

RebuildNext == FlameGraphAction \/ ShowHeatmap \/ ShowFlameGraph \/ SelectTimeRange

SpecRebuild == RebuildInit /\ [][RebuildNext]_vars

-----------------------------------------------------------------------------
(* C4 *)

\* the position of a cell in time order, in tenths of a second
Tenths(c) == c.second * IntervalsPerSecond + c.interval

GridIds == { getCellId(heatmap.data[k]) : k \in 1..Len(heatmap.data) }

\* the grid cells lying in time from the earliest to the latest cell of S
Between(S) ==
    { id \in GridIds :
        /\ \E a \in S : Tenths(ParseCellId(a)) <= Tenths(ParseCellId(id))
        /\ \E b \in S : Tenths(ParseCellId(id)) <= Tenths(ParseCellId(b)) }

MinTenths(S) == CHOOSE t \in { Tenths(ParseCellId(a)) : a \in S } :
                    \A a \in S : t <= Tenths(ParseCellId(a))
MaxTenths(S) == CHOOSE t \in { Tenths(ParseCellId(a)) : a \in S } :
                    \A a \in S : t >= Tenths(ParseCellId(a))

Finalized == finalized \notin {NoFinalized, {}} /\ timeRange # Null

\* C4 as stated: for a finalized selection S not produced by a shift-range
\* drag across non-adjacent columns, the cells highlighted from the derived
\* range are exactly S.
C4_Stated == (Finalized /\ ~gapDrag) => cellsToHighlight = finalized

\* C4 amended: the cells highlighted from the derived range of a finalized
\* selection S include S and every grid cell lying in time between the
\* earliest and the latest cell of S; any further highlighted cell is the one
\* just before the earliest or just after the latest cell (rounding of the
\* cell bounds).
C4_HighlightCovers ==
    Finalized =>
        /\ timeRange.min.n = MinTenths(finalized)
        /\ timeRange.max.n = MaxTenths(finalized) + 1
        /\ finalized \subseteq cellsToHighlight
        /\ Between(finalized) \subseteq cellsToHighlight
        /\ \A id \in cellsToHighlight \ Between(finalized) :
              \/ Tenths(ParseCellId(id)) = MinTenths(finalized) - 1
              \/ Tenths(ParseCellId(id)) = MaxTenths(finalized) + 1

\* a finalized plain selection with a gap, highlighted together with the
\* unselected cell in the gap
C4_Witness ==
    /\ Finalized
    /\ ~gapDrag
    /\ Cardinality(finalized) = 2
    /\ Between(finalized) # finalized
    /\ Between(finalized) \subseteq cellsToHighlight

-----------------------------------------------------------------------------
(* C5 *)

BucketCountSum(h) == SumSeq([i \in 1..Len(h.data) |-> h.data[i].count])

\* C5: the counts of the emitted buckets add up to the number of samples.
C5_Stated ==
    phase = "grid" => (~heatmap.threw /\ BucketCountSum(heatmap) = Len(samples))

-----------------------------------------------------------------------------
(* Tree observers used by the properties *)

RECURSIVE Nodes(_)
\* the set of node records of a tree (none for null)
Nodes(t) ==
    IF t = Null THEN {}
    ELSE {t} \cup UNION { Nodes(t.children[i]) : i \in 1..Len(t.children) }

RECURSIVE NamePaths(_)
\* the name sequences leading from the root (<<>>) to each node
NamePaths(t) ==
    IF t = Null THEN {}
    ELSE {<<>>} \cup UNION { { <<t.children[i].name>> \o p : p \in NamePaths(t.children[i]) }
                             : i \in 1..Len(t.children) }

RECURSIVE NodeAt(_, _)
\* the node reached from t along the child names of p (first match)
NodeAt(t, p) ==
    IF p = <<>> THEN t
    ELSE NodeAt(t.children[FindChild(t.children, Head(p))], Tail(p))

RECURSIVE LeafValueSum(_)
\* sum of value over the nodes that have no children
LeafValueSum(t) ==
    IF Len(t.children) = 0 THEN t.value
    ELSE SumSeq([i \in 1..Len(t.children) |-> LeafValueSum(t.children[i])])

ChildValueSum(n) == SumSeq([i \in 1..Len(n.children) |-> n.children[i].value])

RECURSIVE CollapsedFrom(_, _, _)
\* the names of the insertion path of a stack, from index i on
CollapsedFrom(stack, i, process) ==
    IF i > Len(stack) THEN <<>>
    ELSE <<FrameName(stack, i, process)>>
            \o CollapsedFrom(stack, IF stack[i] = Unknown THEN i + UnknownRun(stack, i) ELSE i + 1, process)

InsertionPath(s) == CollapsedFrom(s.stack, 1, s.process)

IsProperPrefix(p, q) == Len(p) < Len(q) /\ SubSeq(q, 1, Len(p)) = p

\* the samples whose insertion path ends at a node that has no children
EndsAtLeaf(ss) ==
    { i \in 1..Len(ss) :
        /\ ss[i].stack # <<>>
        /\ \A j \in 1..Len(ss) : ~IsProperPrefix(InsertionPath(ss[i]), InsertionPath(ss[j])) }

OwnInWindow(n, w) == \E k \in 1..Len(n.samples) :
                        n.samples[k].time >= w.min /\ n.samples[k].time <= w.max

SubtreeInWindow(t, w) == \E n \in Nodes(t) : OwnInWindow(n, w)

-----------------------------------------------------------------------------
(* C1 *)

AggregatedValue(t) == \A n \in Nodes(t) : n.value = Len(n.samples) + ChildValueSum(n)

-----------------------------------------------------------------------------
(* C2 *)

\* C2 as stated: the values of the nodes without children add up to the
\* number of samples.
C2_Stated == phase # "input" => LeafValueSum(tree) = Len(samples)

\* C2 amended: the values of the nodes without children add up to the number
\* of samples whose stack is non-empty and whose insertion path is not a
\* proper prefix of another sample's insertion path.
C2_LeafConservation ==
    phase # "input" => LeafValueSum(tree) = Cardinality(EndsAtLeaf(samples))

\* a built tree of two samples of which one ends at a node without children
\* and the other at its parent
C2_Witness ==
    /\ phase = "built"
    /\ Len(samples) = 2
    /\ Cardinality(EndsAtLeaf(samples)) = 1
    /\ \A i \in 1..Len(samples) : samples[i].stack # <<>>

-----------------------------------------------------------------------------
(* C3 *)

\* C3: filtering a filter output again with the same window returns the
\* same tree: nodes, values, own-sample lists and cost aggregates.
C3_Idempotent == phase = "refiltered" => flt2 = flt

\* a second filtering of an output from which the first one dropped a sample
C3_Witness ==
    /\ phase = "refiltered"
    /\ flt # tree
    /\ \E n \in Nodes(flt) : n.totalCpuCost > 0 /\ Len(n.children) > 0

-----------------------------------------------------------------------------
(* C8 *)

\* C8: the filter keeps exactly the nodes whose subtree has an own sample
\* with min <= time <= max, returns null exactly when the tree has none, and
\* no output node is left with no own samples and no children.
C8_KeepsExactly ==
    phase = "filtered" =>
        /\ NamePaths(flt) = { p \in NamePaths(tree) : SubtreeInWindow(NodeAt(tree, p), win) }
        /\ (flt = Null) <=> ~SubtreeInWindow(tree, win)
        /\ \A n \in Nodes(flt) : ~(Len(n.samples) = 0 /\ Len(n.children) = 0)
        /\ \A p \in NamePaths(flt) :
               NodeAt(flt, p).samples =
                  SelectSeq(NodeAt(tree, p).samples,
                            LAMBDA s : s.time >= win.min /\ s.time <= win.max)

\* a filtering that keeps a sample lying on the upper end of the window and
\* drops another node
C8_Witness ==
    /\ phase = "filtered"
    /\ flt # Null
    /\ NamePaths(flt) # NamePaths(tree)
    /\ win.min < win.max
    /\ \E n \in Nodes(flt) : \E k \in 1..Len(n.samples) : n.samples[k].time = win.max

-----------------------------------------------------------------------------
(* C10 *)

HeaderLines(ls) == { i \in 1..Len(ls) : MatchHeader(ls[i]) # Null }

\* C10: parsePerfScript fails with the invalid-format error exactly when no
\* line of the text matches the header pattern, and a failed parse carries
\* no samples; with at least one matching line it never fails with that error.
C10_FormatErrorIffNoHeader ==
    phase = "parsed" =>
        /\ (parsed.threw /\ parsed.message = FormatError) <=> HeaderLines(lines) = {}
        /\ parsed.threw => "samples" \notin DOMAIN parsed

\* a text of header-like lines that all miss the pattern, and stack lines, was rejected
C10_Witness ==
    /\ phase = "parsed"
    /\ parsed.threw
    /\ parsed.message = FormatError
    /\ \E i \in 1..Len(lines) : lines[i] = NoCpuLine
    /\ \E i \in 1..Len(lines) : lines[i] = FrameA

-----------------------------------------------------------------------------
(* C6 *)

\* the App state that shows the outcome of loading file and nothing else
ShowsFile(file) ==
    LET m == WorkerReply(file)
    IN IF m.status = "success"
       THEN /\ error = Null
            /\ originalData = [flamegraph |-> AssignPaths(m.flamegraphData, ""),
                               heatmap |-> m.heatmapData]
       ELSE /\ error = [message |-> m.message]
            /\ originalData = Null

AllHandled == reading = {} /\ inbox = <<>> /\ outbox = <<>> /\ ~effectPending

\* C6 (as stated): the data stored for display is never the result of a load
\* that a later load has superseded, and once every reply has been handled
\* the App shows the outcome of the most recently loaded file.
C6_Stated ==
    loaded # <<>> =>
        /\ originalData # Null => ShowsFile(loaded[Len(loaded)])
        /\ AllHandled => ShowsFile(loaded[Len(loaded)])

-----------------------------------------------------------------------------
(* C7 *)

\* C7 (as stated): whenever the views are shown, the shown tree was filtered
\* from the trace whose grid is shown, and the time range in force was
\* selected on that grid.
C7_Stated ==
    ViewsShown =>
        /\ originalData # Null
        /\ filteredData.heatmap = originalData.heatmap
        /\ timeRange # Null => rangeOn = originalData.heatmap

-----------------------------------------------------------------------------
(* C9 *)

\* the sum of the own counts of the nodes of a subtree that are not pruned
RECURSIVE UnprunedOwnSum(_)
UnprunedOwnSum(node) ==
    (IF node.data.pruned THEN 0 ELSE node.data.value)
    + SumSeq([i \in 1..Len(node.children) |-> UnprunedOwnSum(node.children[i])])

\* the names and the parent-child edges of a hierarchy
RECURSIVE Shape(_)
Shape(node) ==
    [name |-> node.data.name,
     children |-> [i \in 1..Len(node.children) |-> Shape(node.children[i])]]

\* C9: after the render effect has run with prune set prunedNodes, a node is
\* marked pruned iff its own path or the path of one of its ancestors is in
\* prunedNodes, every node's value is the sum of the own counts of the
\* non-pruned nodes of its subtree, and the hierarchy has the nodes and the
\* parent-child edges of the hierarchy built from the data before any pruning.
C9_PruneRecompute ==
    shown # Null =>
        /\ \A pos \in Positions(shown) :
              /\ At(shown, pos).data.pruned
                   <=> \E q \in Prefixes(pos) : At(shown, q).data.path \in prunedNodes
              /\ At(shown, pos).value = UnprunedOwnSum(At(shown, pos))
        /\ Shape(shown) = Shape(DataEffect(flameData, "", TRUE))

\* the only child of the root, which holds samples, was pruned: the root's value is 0
C9_Witness ==
    /\ shown # Null
    /\ Len(shown.children) = 1
    /\ shown.children[1].data.value > 0
    /\ shown.children[1].data.path \in prunedNodes
    /\ shown.children[1].data.pruned
    /\ shown.value = 0

-----------------------------------------------------------------------------
(* C11 *)

\* the indexes of the header lines of ls, in increasing order
RECURSIVE HeaderSeq(_, _)
HeaderSeq(ls, i) ==
    IF i > Len(ls) THEN <<>>
    ELSE (IF MatchHeader(ls[i]) # Null THEN <<i>> ELSE <<>>) \o HeaderSeq(ls, i + 1)

\* the frames of the stack lines ls[from..to], last line first
RECURSIVE FramesLastFirst(_, _, _)
FramesLastFirst(ls, from, to) ==
    IF to < from THEN <<>>
    ELSE StackLine([stack |-> <<>>], ls[to]).stack \o FramesLastFirst(ls, from, to - 1)

\* C11: a successful parse returns one sample per header line, in header
\* order; the sample of a header has the header's process and time, and its
\* stack holds the frames of the stack lines up to the next header (or the
\* end of the text), the last of these lines first and the first one last;
\* a header with no stack line gives a sample with an empty stack.
C11_OneSamplePerHeader ==
    (phase = "parsed" /\ ~parsed.threw) =>
        LET hs == HeaderSeq(lines, 1)
        IN /\ Len(parsed.samples) = Len(hs)
           /\ \A k \in 1..Len(hs) :
                LET next == IF k < Len(hs) THEN hs[k + 1] ELSE Len(lines) + 1
                    m == MatchHeader(lines[hs[k]])
                IN /\ parsed.samples[k].process = m.processName
                   /\ parsed.samples[k].time = m.time
                   /\ parsed.samples[k].stack = FramesLastFirst(lines, hs[k] + 1, next - 1)

\* a header directly followed by a header, whose sample has two stack lines
C11_Witness ==
    /\ phase = "parsed"
    /\ ~parsed.threw
    /\ Len(parsed.samples) = 2
    /\ parsed.samples[1].stack = <<>>
    /\ Len(parsed.samples[2].stack) = 2
    /\ parsed.samples[2].stack[1] # parsed.samples[2].stack[2]

-----------------------------------------------------------------------------
(* C12 *)

-----------------------------------------------------------------------------
(* C13 *)

\* the counter of the last header before index i with the cpu id cpu, 0 if none
RECURSIVE PreviousCounter(_, _, _)
PreviousCounter(ls, i, cpu) ==
    IF i <= 1 THEN 0
    ELSE LET m == MatchHeader(ls[i - 1])
         IN IF m # Null /\ m.cpu = cpu
            THEN m.cumulativeCpuCost
            ELSE PreviousCounter(ls, i - 1, cpu)

\* C13: the cpuCost of the sample of every header is max(0, counter - previous
\* counter of the same cpu id), with 0 for a first header of that cpu id; the
\* previous counter is the one of the nearest earlier header of that cpu id
\* also when that header's own difference was negative; no cpuCost is negative.
C13_CpuCostDelta ==
    (phase = "parsed" /\ ~parsed.threw) =>
        LET hs == HeaderSeq(lines, 1)
        IN \A k \in 1..Len(hs) :
              LET m == MatchHeader(lines[hs[k]])
                  d == m.cumulativeCpuCost - PreviousCounter(lines, hs[k], m.cpu)
              IN /\ k <= Len(parsed.samples)
                 /\ parsed.samples[k].cpuCost = (IF d > 0 THEN d ELSE 0)
                 /\ parsed.samples[k].cpuCost >= 0

\* counters 5, 3, 5 on one cpu: the costs are 5, 0 and 2
C13_Witness ==
    /\ phase = "parsed"
    /\ ~parsed.threw
    /\ Len(parsed.samples) = 3
    /\ parsed.samples[1].cpuCost = 5
    /\ parsed.samples[2].cpuCost = 0
    /\ parsed.samples[3].cpuCost = 2

-----------------------------------------------------------------------------
(* C14 *)

RECURSIVE NodeCount(_)
NodeCount(t) == 1 + SumSeq([i \in 1..Len(t.children) |-> NodeCount(t.children[i])])

PrefixClosure(paths) == UNION { { SubSeq(p, 1, k) : k \in 0..Len(p) } : p \in paths }

HasUnknown(stack) == \E i \in 1..Len(stack) : stack[i] = Unknown

\* the stack with each run of unresolved frames taken as one frame, whatever the process
ProcessFreePath(s) == CollapsedFrom(s.stack, 1, "")

\* C14 (as stated): the tree has one node per distinct prefix of the stacks
\* (runs of unresolved frames taken as one frame), whatever the processes of
\* the samples: samples with one stack share one root-to-leaf path.
C14_Stated ==
    phase = "built" =>
        NodeCount(tree) =
            Cardinality(PrefixClosure({ ProcessFreePath(samples[i]) : i \in 1..Len(samples) }))

\* C14 (amended): samples with the same stack share one root-to-leaf path,
\* whatever their processes, when the stack holds no "[unknown]" frame: the
\* node at that path holds the own samples of all of them. The name of the
\* node of a run of "[unknown]" frames holds the process, and the tree has
\* one node per distinct prefix of the stacks so named.
C14_MergeByName ==
    phase = "built" =>
        /\ \A i \in 1..Len(samples) :
              ~HasUnknown(samples[i].stack) =>
                  /\ samples[i].stack \in NamePaths(tree)
                  /\ Len(NodeAt(tree, samples[i].stack).samples)
                       = Cardinality({ j \in 1..Len(samples) :
                                         samples[j].stack = samples[i].stack })
        /\ NodeCount(tree) =
              Cardinality(PrefixClosure({ InsertionPath(samples[i]) : i \in 1..Len(samples) }))

\* two samples of different processes with one stack of resolved frames were built
C14_Witness ==
    /\ phase = "built"
    /\ Len(samples) = 2
    /\ samples[1].stack = <<"a", "b">>
    /\ samples[2].stack = <<"a", "b">>
    /\ samples[1].process # samples[2].process
    /\ NodeCount(tree) = 3

-----------------------------------------------------------------------------
(* C15 *)

IsPrefix(p, q) == Len(p) <= Len(q) /\ SubSeq(q, 1, Len(p)) = p

\* the times of the samples whose insertion path passes through the node at p
TimesThrough(ss, p) ==
    { ss[i].time : i \in { j \in 1..Len(ss) : IsPrefix(p, InsertionPath(ss[j])) } }

\* C15 (as stated): in the built tree, the startTime of every node but the
\* root is the least, and its endTime the greatest, of the times of the
\* samples whose stack passes through the node.
C15_Stated ==
    phase = "built" =>
        \A p \in NamePaths(tree) \ {<<>>} :
            /\ \A t \in TimesThrough(samples, p) : NodeAt(tree, p).startTime <= t
            /\ \A t \in TimesThrough(samples, p) : NodeAt(tree, p).endTime >= t
            /\ NodeAt(tree, p).startTime \in TimesThrough(samples, p)
            /\ NodeAt(tree, p).endTime \in TimesThrough(samples, p)

-----------------------------------------------------------------------------
(* C16 *)

UniqueSiblingNames(t) ==
    \A n \in Nodes(t) :
        \A i, j \in 1..Len(n.children) : n.children[i].name = n.children[j].name => i = j

\* C16: in the built tree, in a filter output and in the output of a filter
\* applied to a filter output, no node has two children with the same name.
C16_UniqueSiblingNames ==
    /\ UniqueSiblingNames(tree)
    /\ UniqueSiblingNames(flt)
    /\ UniqueSiblingNames(flt2)

\* two samples that share their first frame were built into a node with two
\* children, and a filter output keeps both
C16_Witness ==
    /\ phase = "filtered"
    /\ flt # Null
    /\ \E n \in Nodes(tree) : n.name = "a" /\ Len(n.children) = 2
    /\ \E n \in Nodes(flt) : n.name = "a" /\ Len(n.children) = 2

-----------------------------------------------------------------------------
(* C17 *)

\* C17 (as stated): the nodes of the annotated view are new objects, so the
\* filter output handed to the FlameGraph is what the filter returned,
\* whatever was pruned or collapsed since.
C17_Stated ==
    phase = "view" => flameData = ViewTree(samples)

-----------------------------------------------------------------------------
(* C18 *)

\* C18: whenever the builder returns a grid, maxCount is the greatest count
\* of the emitted buckets, and 0 when no bucket is emitted.
C18_MaxCount ==
    (phase = "grid" /\ ~heatmap.threw) =>
        /\ \A i \in 1..Len(heatmap.data) : heatmap.data[i].count <= heatmap.maxCount
        /\ IF heatmap.data = <<>>
           THEN heatmap.maxCount = 0
           ELSE \E i \in 1..Len(heatmap.data) : heatmap.data[i].count = heatmap.maxCount

\* a grid of two buckets, the first with two samples and the second with one
C18_Witness ==
    /\ phase = "grid"
    /\ ~heatmap.threw
    /\ Len(heatmap.data) = 2
    /\ heatmap.data[1].count = 2
    /\ heatmap.data[2].count = 1
    /\ heatmap.maxCount = 2

-----------------------------------------------------------------------------
(* C19 *)

\* C19 (as stated): the drawn nodes are the nodes with a positive value, not
\* pruned, with no collapsed strict ancestor, whose extent overlaps the
\* extent of the zoom target (the whole layout's root when there is none).
C19_Stated ==
    shown # Null =>
        LET laid == PartitionRoot(shown)
            target == At(laid, IF zoomTarget = Null THEN <<>> ELSE zoomTarget.node)
        IN visibleNodes(shown, zoomTarget) =
              { pos \in Positions(shown) :
                  /\ At(shown, pos).value > 0
                  /\ ~At(shown, pos).data.pruned
                  /\ \A q \in Prefixes(pos) \ {pos} : ~At(shown, q).data.collapsed
                  /\ At(laid, pos).x1 > target.x0
                  /\ At(laid, pos).x0 < target.x1 }

-----------------------------------------------------------------------------
(* C20 *)

\* the frame names from below the root down to the node at pos
NamePath(root, pos) == [k \in 1..Len(pos) |-> At(root, SubSeq(pos, 1, k)).data.name]

\* the number of samples of the trace whose stack is stack
SamplesWithStack(stack) == Cardinality({ i \in 1..Len(samples) : samples[i].stack = stack })

\* C20 (as stated): with no time range selected and nothing pruned, every
\* stack of the trace has its node in the displayed tree with all the samples
\* of that stack as own samples, and the displayed root total is the number of
\* samples with a non-empty stack.
C20_Stated ==
    (shown # Null /\ prunedNodes = {}) =>
        /\ shown.value = Cardinality({ i \in 1..Len(samples) : samples[i].stack # <<>> })
        /\ \A i \in 1..Len(samples) :
              samples[i].stack # <<>> =>
                  \E pos \in Positions(shown) :
                      /\ NamePath(shown, pos) = samples[i].stack
                      /\ At(shown, pos).data.value = SamplesWithStack(samples[i].stack)

-----------------------------------------------------------------------------
(* C21 *)

\* C21 (as stated): a pointer-down on a cell puts the cell in the selection;
\* with no modifier or with shift nothing else is selected afterwards; with
\* ctrl/cmd and no shift the cells selected before the pointer-down stay
\* selected, and so do the cells the earlier gesture selected when its range
\* is still in force.
C21_Stated ==
    phase = "grid" =>
        \A d \in SelRects, shiftKey \in BOOLEAN, ctrlOrMeta \in BOOLEAN :
            LET after == mousedownCells(d, shiftKey, ctrlOrMeta)
            IN /\ getCellId(d) \in after
               /\ (shiftKey \/ ~ctrlOrMeta) => after = {getCellId(d)}
               /\ (ctrlOrMeta /\ ~shiftKey) => selectedCells \subseteq after
               /\ (ctrlOrMeta /\ ~shiftKey /\ Finalized) => finalized \subseteq after

-----------------------------------------------------------------------------
(* C22 *)

\* the span of a shift-drag from anchor a to current cell c, as stated
StatedSpan(a, c) ==
    IF a.second = c.second
    THEN { [second |-> a.second, interval |-> j] :
              j \in Min2(a.interval, c.interval)..Max2(a.interval, c.interval) }
    ELSE { [second |-> i, interval |-> j] :
              i \in (Min2(a.second, c.second) + 1)..(Max2(a.second, c.second) - 1),
              j \in 0..(IntervalsPerSecond - 1) }
         \cup { [second |-> a.second, interval |-> j] : j \in a.interval..(IntervalsPerSecond - 1) }
         \cup { [second |-> c.second, interval |-> j] : j \in 0..c.interval }

\* C22: a shift hover (no ctrl/cmd) during a gesture leaves selected exactly
\* the grid cells of the span from the anchor to the hovered cell: whole
\* columns strictly between the two, the anchor's column from the anchor's
\* interval upward, the hovered column up to the hovered interval, whatever
\* the direction; in one column, the intervals between the two.
C22_ShiftSpan ==
    isSelecting =>
        \A d \in SelRects :
            mouseoverCells(d, TRUE, FALSE)
                = { id \in GridIds : ParseCellId(id) \in StatedSpan(selectionAnchor, d) }

\* a leftward shift-drag from cell 2-3 to cell 0-1 over the column of second 1
C22_Witness ==
    /\ isSelecting
    /\ gapDrag
    /\ selectionAnchor = [second |-> 2, interval |-> 3]
    /\ selectedCells = {"0-0", "0-1", "1-1", "1-2", "2-3"}

-----------------------------------------------------------------------------
(* C23 *)

\* C23: during a gesture a shift hover with no ctrl/cmd leaves selected the
\* grid cells of the span from the anchor to the hovered cell and no other
\* cell, whatever was selected before; with ctrl/cmd held too it leaves
\* selected what was selected before together with the span.
C23_ShiftRebuilds ==
    isSelecting =>
        \A d \in SelRects :
            LET span == RectsIn(heatmap.data, RequiredIds(selectionAnchor, d))
            IN /\ mouseoverCells(d, TRUE, FALSE) = span
               /\ mouseoverCells(d, TRUE, TRUE) = selectedCells \cup span

\* a shift-drag from cell 0-0 that reached a non-adjacent column and came
\* back to cell 0-1: the cells of the wider span are no longer selected
C23_Witness ==
    /\ isSelecting
    /\ gapDrag
    /\ selectionAnchor = [second |-> 0, interval |-> 0]
    /\ selectedCells = {"0-0", "0-1"}

-----------------------------------------------------------------------------
(* C24 *)

\* [min over S of cellStart, max over S of cellEnd], as stated
StatedRange(S) ==
    LET starts == { cellStartTime(ParseCellId(id)) : id \in S }
        ends == { cellEndTime(ParseCellId(id)) : id \in S }
    IN [min |-> CHOOSE t \in starts : \A u \in starts : ~FloatLess(u, t),
        max |-> CHOOSE t \in ends : \A u \in ends : ~FloatLess(t, u)]

\* C24: a pointer-up during a gesture sets the time range to none when the
\* selection is empty and otherwise to [min cellStart, max cellEnd] over the
\* selected cells; a pointer-up with no gesture active changes neither the
\* time range nor anything else of the selection state.
C24_PointerUpRange ==
    [][MouseUp =>
          IF isSelecting
          THEN /\ finalized' = selectedCells
               /\ timeRange' = IF selectedCells = {} THEN Null ELSE StatedRange(selectedCells)
          ELSE UNCHANGED selVars
      ]_vars

\* a finalized selection of the cells 0-1 and 1-2: the range runs from the
\* start of 0-1 to the end of 1-2
C24_Witness ==
    /\ finalized = {"0-1", "1-2"}
    /\ ~isSelecting
    /\ timeRange # Null
    /\ timeRange.min = cellStartTime([second |-> 0, interval |-> 1])
    /\ timeRange.max = cellEndTime([second |-> 1, interval |-> 2])

-----------------------------------------------------------------------------
(* C25 *)

\* C25 (as stated): a gesture that is active stops being active only by a
\* pointer-up or by a leave with the button pressed, and the two do the
\* same; while no gesture is active a hover changes neither the selection nor
\* the time range; a leave with no button pressed changes nothing.
C25_Stated ==
    [][/\ (isSelecting /\ ~isSelecting') => (MouseUp \/ mouseleave(1))
       /\ mouseleave(1) <=> MouseUp
       /\ (~isSelecting /\ MouseOver) => UNCHANGED <<selectedCells, timeRange, cellsToHighlight>>
       /\ mouseleave(0) => UNCHANGED selVars
      ]_vars

-----------------------------------------------------------------------------
(* C26 *)

\* C26: during a gesture a hover with no shift leaves selected what was
\* selected before together with the hovered cell; while a gesture with no
\* modifier lasts the selection is the pointer-down cell and the cells hovered
\* so far, and that is the selection its finalization reads.
C26_PlainDragAccumulates ==
    /\ isSelecting =>
          \A d \in SelRects, ctrlOrMeta \in BOOLEAN :
              mouseoverCells(d, FALSE, ctrlOrMeta) = selectedCells \cup {getCellId(d)}
    /\ (isSelecting /\ plainDrag.plain) =>
          selectedCells = {plainDrag.down} \cup plainDrag.hovered
    /\ (finalized # NoFinalized /\ plainDrag.plain) =>
          finalized = {plainDrag.down} \cup plainDrag.hovered

\* a finalized drag with no modifier from cell 0-0 over the cells 1-1 and 2-3
C26_Witness ==
    /\ plainDrag.plain
    /\ plainDrag.down = "0-0"
    /\ plainDrag.hovered = {"1-1", "2-3"}
    /\ finalized = {"0-0", "1-1", "2-3"}

-----------------------------------------------------------------------------
(* C27 *)

\* the names that collapsedNodes maps to true
CollapsedNames == { n \in DOMAIN collapsedNodes : collapsedNodes[n] }

\* C27: the drawn nodes are the nodes that would be drawn with nothing
\* collapsed, less every node with a strict ancestor whose name is collapsed,
\* wherever in the tree that name occurs: a collapse hides exactly the
\* descendants of the nodes of that name, and an expand of the name brings
\* back the set drawn before the collapse.
C27_CollapseByName ==
    shown # Null =>
        LET open == RenderEffect(flameData, <<>>, prunedNodes)
        IN visibleNodes(shown, zoomTarget) =
              { pos \in visibleNodes(open, zoomTarget) :
                  \A q \in Prefixes(pos) \ {pos} : At(shown, q).data.name \notin CollapsedNames }

\* the trace with the stacks [a, a, b] and [c, a, d]: c was collapsed and
\* expanded again, a is collapsed; the top-level a, c and the a under c are
\* drawn, the a under a, b and d are hidden
C27_Witness ==
    /\ shown # Null
    /\ Len(samples) = 2
    /\ samples[1].stack = <<"a", "a", "b">>
    /\ "c" \in DOMAIN collapsedNodes
    /\ CollapsedNames = {"a"}
    /\ prunedNodes = {}
    /\ zoomTarget = Null
    /\ visibleNodes(shown, zoomTarget) = { <<>>, <<1>>, <<2>>, <<2, 1>> }

-----------------------------------------------------------------------------
(* C28 *)

\* C28 (as stated): the generation counter never decreases, and every step
\* that changes the collapsed names, the pruned paths or the zoom target
\* (collapse, expand, prune, clearPruned, zoom to a node, zoom to none,
\* expand all) increases it.
C28_Stated ==
    [][/\ generation' >= generation
       /\ (<<collapsedNodes, prunedNodes, zoomTarget>>' # <<collapsedNodes, prunedNodes, zoomTarget>>)
             => generation' > generation
      ]_vars

-----------------------------------------------------------------------------
(* C29 *)

\* C29: a prune leaves pruned what was pruned before together with the path
\* of the menu's node and of each of its descendants in the current
\* hierarchy; a step that changes the collapsed names or the zoom target
\* leaves the pruned paths as they are; a step that takes a path out of the
\* pruned paths is a Clear Pruned and leaves none.
C29_PrunedPaths ==
    [][/\ handlePruneNode =>
             prunedNodes' = prunedNodes \cup
                 { At(shown, q).data.path :
                     q \in { q \in Positions(shown) : IsPrefix(contextMenu.node, q) } }
       /\ (collapsedNodes' # collapsedNodes \/ zoomTarget' # zoomTarget) => UNCHANGED prunedNodes
       /\ ~(prunedNodes \subseteq prunedNodes') => (handleClearPruned /\ prunedNodes' = {})
      ]_vars

\* the node a with its children b and c was pruned: three paths are recorded
C29_Witness ==
    /\ shown # Null
    /\ prunedNodes = {"root/a", "root/a/b", "root/a/c"}
    /\ generation = 1

-----------------------------------------------------------------------------
(* C30 *)

\* C30 (as stated): the steps of a rebuild of the call-tree view by the range
\* filter (the heatmap is shown, the time range changes and filteredData is
\* filtered again, the call tree is shown again) leave the collapsed names
\* and the pruned paths with their contents.
C30_Stated ==
    [][(view' # view \/ timeRange' # timeRange \/ filteredData' # filteredData)
          => UNCHANGED <<collapsedNodes, prunedNodes>>
      ]_vars

-----------------------------------------------------------------------------
(* C31 *)

\* C31 (as stated): in the hierarchy of the call-tree view two distinct nodes
\* never have the same path.
C31_Stated ==
    shown # Null =>
        \A p \in Positions(shown), q \in Positions(shown) :
            p # q => At(shown, p).data.path # At(shown, q).data.path

-----------------------------------------------------------------------------
(* C32 *)

RECURSIVE LeadingUnknown(_)
\* the length of the run of "[unknown]" frames the stack starts with
LeadingUnknown(stack) ==
    IF stack # <<>> /\ Head(stack) = "[unknown]" THEN 1 + LeadingUnknown(Tail(stack)) ELSE 0

RECURSIVE StatedRunPath(_, _)
\* the stack with each maximal run of n "[unknown]" frames replaced by one
\* name, "<n> x [unknown] (<process>)" or "[unknown] (<process>)"
StatedRunPath(stack, process) ==
    IF stack = <<>> THEN <<>>
    ELSE LET n == LeadingUnknown(stack)
         IN IF n = 0 THEN <<Head(stack)>> \o StatedRunPath(Tail(stack), process)
            ELSE << (IF n > 1 THEN ToString(n) \o " x " ELSE "")
                       \o "[unknown] (" \o process \o ")" >>
                    \o StatedRunPath(SubSeq(stack, n + 1, Len(stack)), process)

\* C32: the nodes of the built tree are the root and one node for each
\* prefix of the samples' stacks with every maximal run of "[unknown]" frames
\* taken as one frame named after its length and the process; no node is
\* named "[unknown]"; the node at the end of a sample's path holds the sample
\* among its own samples.
C32_UnknownRuns ==
    phase = "built" =>
        /\ NamePaths(tree) =
              PrefixClosure({ StatedRunPath(samples[i].stack, samples[i].process) :
                                i \in 1..Len(samples) })
        /\ \A n \in Nodes(tree) : n.name # "[unknown]"
        /\ \A i \in 1..Len(samples) :
              samples[i].stack # <<>> =>
                  \E k \in 1..Len(NodeAt(tree, StatedRunPath(samples[i].stack, samples[i].process)).samples) :
                      NodeAt(tree, StatedRunPath(samples[i].stack, samples[i].process)).samples[k]
                          = [time |-> samples[i].time, cpuCost |-> samples[i].cpuCost]

\* a stack of two "[unknown]" frames and a stack that ends with one: the
\* tree has the leaf "2 x [unknown] (p)" and, under a, the leaf "[unknown] (q)",
\* each with its sample
C32_Witness ==
    /\ phase = "built"
    /\ Len(samples) = 2
    /\ samples[1].stack = <<"[unknown]", "[unknown]">>
    /\ samples[1].process = "p"
    /\ samples[2].stack = <<"a", "[unknown]">>
    /\ samples[2].process = "q"
    /\ NamePaths(tree) = { <<>>, <<"2 x [unknown] (p)">>, <<"a">>, <<"a", "[unknown] (q)">> }
    /\ NodeAt(tree, <<"2 x [unknown] (p)">>).value = 1
    /\ NodeAt(tree, <<"a", "[unknown] (q)">>).value = 1

-----------------------------------------------------------------------------
(* C33 *)

\* C33: in a returned grid every bucket has a count of at least 1, an
\* interval in 0..9 and a second in 0..maxTime-1, and no two buckets have the
\* same second and interval.
C33_BucketsWellFormed ==
    (phase = "grid" /\ ~heatmap.threw) =>
        /\ \A k \in 1..Len(heatmap.data) :
              /\ heatmap.data[k].count >= 1
              /\ heatmap.data[k].interval \in 0..9
              /\ heatmap.data[k].second >= 0
              /\ heatmap.data[k].second < heatmap.maxTime
        /\ \A k \in 1..Len(heatmap.data), m \in 1..Len(heatmap.data) :
              (/\ heatmap.data[k].second = heatmap.data[m].second
               /\ heatmap.data[k].interval = heatmap.data[m].interval) => k = m

\* a grid of three samples with two in one bucket and one in another
C33_Witness ==
    /\ phase = "grid"
    /\ ~heatmap.threw
    /\ Len(samples) = 3
    /\ Len(heatmap.data) = 2
    /\ \E k \in 1..2 : heatmap.data[k].count = 2

-----------------------------------------------------------------------------
(* C34 *)

\* a message of the worker is a success with tree and grid or an error with a message
IsOutcome(m) ==
    \/ m.status = "success" /\ DOMAIN m = {"status", "flamegraphData", "heatmapData"}
    \/ m.status = "error" /\ DOMAIN m = {"status", "message"}

\* C34: the worker posts a message only when it takes a request, one
\* message for the request it takes, a success with tree and grid or an
\* error with a message, and every request posted to the worker is taken.
C34_OneOutcome ==
    /\ [][/\ outbox' # outbox /\ Len(outbox') >= Len(outbox) =>
                /\ inbox # <<>>
                /\ inbox' = Tail(inbox)
                /\ Len(outbox') = Len(outbox) + 1
                /\ SubSeq(outbox', 1, Len(outbox)) = outbox
                /\ IsOutcome(outbox'[Len(outbox')])
          /\ Len(inbox') < Len(inbox) =>
                /\ inbox' = Tail(inbox)
                /\ Len(outbox') = Len(outbox) + 1
         ]_vars
    /\ (inbox # <<>>) ~> (inbox = <<>>)

\* two requests were answered, the first with a success and the second with an error
C34_Witness ==
    /\ phase = "app"
    /\ Len(loaded) = 2
    /\ inbox = <<>>
    /\ Len(outbox) = 2
    /\ outbox[1].status = "success"
    /\ outbox[2].status = "error"

-----------------------------------------------------------------------------
(* C35 *)

RECURSIVE FilteredSampleTotal(_)
\* sum of value (the in-window own samples) over the nodes of a filtered tree
FilteredSampleTotal(t) ==
    t.value + SumSeq([i \in 1..Len(t.children) |-> FilteredSampleTotal(t.children[i])])

\* sum of count over the cells of the grid that the highlight effect paints
HighlightedCount(data, range) ==
    SumSeq([k \in 1..Len(data) |-> IF Overlaps(data[k], range) THEN data[k].count ELSE 0])

\* the filter effect has run for a range selected on the grid of the loaded trace
RangeFiltered ==
    /\ phase = "app"
    /\ originalData # Null
    /\ filteredData # Null
    /\ timeRange # Null
    /\ rangeOn = originalData.heatmap
    /\ ~effectPending

\* C35: once the filter effect has run for a selected range, the filtered
\* tree holds as many samples as the highlighted cells of the grid count.
C35_Stated ==
    RangeFiltered =>
        FilteredSampleTotal(filteredData.flamegraph)
            = HighlightedCount(originalData.heatmap.data, timeRange)

-----------------------------------------------------------------------------
(* C36 *)

\* a gesture is active with its anchor in the selection, or none is and no anchor is set
AnchorInSelection ==
    IF isSelecting
    THEN selectionAnchor # Null /\ getCellId(selectionAnchor) \in selectedCells
    ELSE selectionAnchor = Null

\* C36: while a gesture is active the anchor is set and its cell is selected,
\* the anchor is none exactly when no gesture is active, and a pointer-up or
\* a leave with the button pressed that ends a gesture reports a range, not none.
C36_AnchorSelected ==
    /\ []AnchorInSelection
    /\ [][(isSelecting /\ (MouseUp \/ mouseleave(1))) => timeRange' # Null]_vars

\* a gesture whose shift span rebuilt the selection away from the pressed cell's column
C36_Witness ==
    /\ phase = "grid"
    /\ isSelecting
    /\ gapDrag
    /\ Cardinality(selectedCells) > 2
    /\ getCellId(selectionAnchor) \in selectedCells

-----------------------------------------------------------------------------
(* C37 *)

\* the range from the earlier start to the later end of the two cells
RangeBetween(a, c) ==
    [min |-> FloatMin(cellStartTime(a), cellStartTime(c)),
     max |-> FloatMax(cellEndTime(a), cellEndTime(c))]

\* C37: the range a pointer-up derives after a shift hover (no ctrl/cmd)
\* from the anchor to a cell runs from the earlier start to the later end of
\* the two cells.
C37_Stated ==
    isSelecting =>
        \A d \in SelRects :
            DerivedRange(mouseoverCells(d, TRUE, FALSE)) = RangeBetween(selectionAnchor, d)

-----------------------------------------------------------------------------
(* C38 *)

\* C38: filtering a filter output with a second window gives the tree that
\* one filter with the intersection of the two windows gives.
C38_FilterComposes ==
    phase = "composed" =>
        fltAgain = filterFlamegraph(tree, Max2(win.min, win2.min), Min2(win.max, win2.max))

\* a second window that reaches beyond the first, on a first result that
\* dropped a sample, with a sample left in the intersection
C38_Witness ==
    /\ phase = "composed"
    /\ win2.min < win.min
    /\ win.max < win2.max
    /\ fltAgain # Null
    /\ FilteredSampleTotal(fltAgain) < Len(samples)
    /\ FilteredSampleTotal(filterFlamegraph(tree, win2.min, win2.max)) = Len(samples)

-----------------------------------------------------------------------------
(* C39 *)

\* a request was posted to the worker and its reply has not been handled by the App
RequestOutstanding == inbox # <<>> \/ outbox # <<>>

\* C39: isLoading is true in every state in which a posted parse request has
\* not had its reply handled.
C39_Stated == (phase = "app" /\ RequestOutstanding) => isLoading

-----------------------------------------------------------------------------
(* C40 *)

\* the smallest and the largest sample time of a non-empty sequence
MinTime(ss) == CHOOSE t \in { ss[i].time : i \in 1..Len(ss) } : \A i \in 1..Len(ss) : t <= ss[i].time
MaxTime(ss) == CHOOSE t \in { ss[i].time : i \in 1..Len(ss) } : \A i \in 1..Len(ss) : t >= ss[i].time

\* C40: for every non-empty sample sequence the grid builder returns a grid
\* whose firstTime is the smallest sample time and whose maxTime is the
\* ceiling of the largest relative time.
C40_Stated ==
    phase = "grid" =>
        /\ ~heatmap.threw
        /\ heatmap.firstTime = MinTime(samples)
        /\ heatmap.maxTime = CeilSeconds(MaxTime(samples) - MinTime(samples))

====
